---------------------------- MODULE Spec2Model ----------------------------
(***************************************************************************)
(* Filtro backend: the filter engine (applyFilters, applyFiltersWithLogic, *)
(* evaluateFilter), the reference join (POST /api/reference-filter) and    *)
(* the type inference of an uploaded sheet (parseExcel) of the Express     *)
(* server, as a state machine: a request body arrives, one handler runs to *)
(* completion and produces the JSON response.                              *)
(*                                                                         *)
(* Filtro frontend: the single-file React UI (App, FileUpload,             *)
(* FilterBuilder, DataTable) as a state machine: one action per event      *)
(* handler, run from the state of the last render up to its first await,   *)
(* and one per settled request, run with the values its handler captured.  *)
(*                                                                         *)
(* JavaScript values are tagged records, strings are sequences of          *)
(* one-character strings, rows are ordered lists of (key, value) entries   *)
(* (a JS object with its insertion order).                                 *)
(***************************************************************************)
EXTENDS Integers, Sequences, FiniteSets, TLC

VARIABLES
  pc,                     \* "request": a body is in flight; "done": answered
  body,                   \* req.body, with the route it was posted to
  res,                    \* the JSON response
  filteredData,           \* POST /api/filter: its local filteredData
  filteredReferenceData,  \* POST /api/reference-filter: its local of that name
  sampleValues,           \* POST /api/upload: parseExcel's sampleValues by header
  app,                    \* the browser: state of App, FileUpload, FilterBuilder
  table,                  \* the browser: state of the mounted DataTable
  network                 \* requests the browser has sent and not yet settled

serverVars ==
  <<pc, body, res, filteredData, filteredReferenceData, sampleValues>>

browserVars == <<app, table, network>>

vars == <<serverVars, browserVars>>

-----------------------------------------------------------------------------
(* JavaScript values *)

Null == [t |-> "null", n |-> 0, s |-> <<>>]

Undefined == [t |-> "undefined", n |-> 0, s |-> <<>>]

Num(n) == [t |-> "num", n |-> n, s |-> <<>>]

Str(s) == [t |-> "str", n |-> 0, s |-> s]

(* IEEE results of parseFloat / Date#getTime: NaN, +-Infinity or an integer *)
NaN == [k |-> "nan", v |-> 0]

Fin(v) == [k |-> "fin", v |-> v]

Inf(sign) == [k |-> "inf", v |-> sign]

isNaN(x) == x.k = "nan"

(* x < y on IEEE numbers; false when either side is NaN *)
NumLt(x, y) ==
  /\ ~isNaN(x) /\ ~isNaN(y)
  /\ CASE x.k = "fin" /\ y.k = "fin" -> x.v < y.v
       [] x.k = "inf" /\ y.k = "inf" -> x.v < y.v
       [] x.k = "inf" -> x.v < 0
       [] OTHER -> y.v > 0

(* x === y on IEEE numbers; false when either side is NaN *)
NumEq(x, y) == ~isNaN(x) /\ ~isNaN(y) /\ x = y

NumLe(x, y) == NumLt(x, y) \/ NumEq(x, y)

-----------------------------------------------------------------------------
(* Strings as character sequences *)

UpperCase == <<"A","B","C","D","E","F","G","H","I","J","K","L","M",
               "N","O","P","Q","R","S","T","U","V","W","X","Y","Z">>

LowerCase == <<"a","b","c","d","e","f","g","h","i","j","k","l","m",
               "n","o","p","q","r","s","t","u","v","w","x","y","z">>

Digits == <<"0","1","2","3","4","5","6","7","8","9">>

WhiteSpace == {" ", "\t", "\n", "\r"}

IsDigit(c) == \E i \in 1..10 : Digits[i] = c

DigitVal(c) == (CHOOSE i \in 1..10 : Digits[i] = c) - 1

toLowerCaseChar(c) ==
  IF \E i \in 1..26 : UpperCase[i] = c
    THEN LowerCase[CHOOSE i \in 1..26 : UpperCase[i] = c]
    ELSE c

(* String.prototype.toLowerCase *)
toLowerCase(s) == [i \in 1..Len(s) |-> toLowerCaseChar(s[i])]

RECURSIVE trimStart(_)
trimStart(s) ==
  IF s # <<>> /\ s[1] \in WhiteSpace THEN trimStart(Tail(s)) ELSE s

RECURSIVE trimEnd(_)
trimEnd(s) ==
  IF s # <<>> /\ s[Len(s)] \in WhiteSpace
    THEN trimEnd(SubSeq(s, 1, Len(s) - 1))
    ELSE s

(* String.prototype.trim *)
(* trim that leaves white space in place *)
trim_keepsSpace(s) == s

trim(s) == trimEnd(trimStart(s))

(* String.prototype.startsWith / endsWith / includes *)
startsWith(s, p) == Len(p) <= Len(s) /\ SubSeq(s, 1, Len(p)) = p

endsWith(s, p) ==
  Len(p) <= Len(s) /\ SubSeq(s, Len(s) - Len(p) + 1, Len(s)) = p

includes(s, p) ==
  \E i \in 0..(Len(s) - Len(p)) : SubSeq(s, i + 1, i + Len(p)) = p

RECURSIVE NatToChars(_)
NatToChars(n) ==
  IF n < 10 THEN <<Digits[n + 1]>>
            ELSE NatToChars(n \div 10) \o <<Digits[(n % 10) + 1]>>

(* Number::toString for integers *)
NumberToString(n) ==
  IF n < 0 THEN <<"-">> \o NatToChars(0 - n) ELSE NatToChars(n)

(* String(value) *)
String(v) ==
  CASE v.t = "null" -> <<"n","u","l","l">>
    [] v.t = "undefined" -> <<"u","n","d","e","f","i","n","e","d">>
    [] v.t = "num" -> NumberToString(v.n)
    [] OTHER -> v.s

-----------------------------------------------------------------------------
(* parseFloat *)

RECURSIVE DigitPrefix(_)
DigitPrefix(s) ==
  IF s # <<>> /\ IsDigit(s[1]) THEN <<s[1]>> \o DigitPrefix(Tail(s)) ELSE <<>>

RECURSIVE DigitsValue(_)
DigitsValue(d) ==
  IF d = <<>> THEN 0
  ELSE DigitsValue(SubSeq(d, 1, Len(d) - 1)) * 10 + DigitVal(d[Len(d)])

InfinityLiteral == <<"I","n","f","i","n","i","t","y">>

(* The longest prefix of s that is a StrDecimalLiteral, as a number.  The  *)
(* input alphabet holds integer literals only: no "." fraction and no      *)
(* exponent part follows a digit run.                                      *)
ParseDecimalPrefix(s) ==
  LET neg == s # <<>> /\ s[1] = "-"
      signed == s # <<>> /\ s[1] \in {"-", "+"}
      rest == IF signed THEN Tail(s) ELSE s
      d == DigitPrefix(rest)
  IN  IF startsWith(rest, InfinityLiteral) THEN Inf(IF neg THEN -1 ELSE 1)
      ELSE IF d = <<>> THEN NaN
      ELSE Fin(IF neg THEN 0 - DigitsValue(d) ELSE DigitsValue(d))

(* parseFloat(value): ToString, skip leading white space, parse the prefix *)
parseFloat(v) == ParseDecimalPrefix(trimStart(String(v)))

-----------------------------------------------------------------------------
(* new Date(value).getTime(), as (day since the epoch, millisecond of day) *)

InvalidDate == [k |-> "nan", day |-> 0, ms |-> 0]

TimeValue(day, ms) == [k |-> "fin", day |-> day, ms |-> ms]

(* days since 1970-01-01 of a proleptic Gregorian calendar date *)
DaysFromCivil(y, m, d) ==
  LET yy == IF m <= 2 THEN y - 1 ELSE y
      era == yy \div 400
      yoe == yy - era * 400
      mp == (m + 9) % 12
      doy == (153 * mp + 2) \div 5 + d - 1
      doe == yoe * 365 + yoe \div 4 - yoe \div 100 + doy
  IN  era * 146097 + doe - 719468

DaysInMonth(y, m) ==
  IF m = 2
    THEN (IF y % 4 = 0 /\ (y % 100 # 0 \/ y % 400 = 0) THEN 29 ELSE 28)
    ELSE (IF m \in {4, 6, 9, 11} THEN 30 ELSE 31)

(* the ISO date-only form YYYY-MM-DD *)
IsIsoDate(s) ==
  /\ Len(s) = 10
  /\ s[5] = "-" /\ s[8] = "-"
  /\ \A i \in {1, 2, 3, 4, 6, 7, 9, 10} : IsDigit(s[i])
  /\ LET y == DigitsValue(SubSeq(s, 1, 4))
         m == DigitsValue(SubSeq(s, 6, 7))
         d == DigitsValue(SubSeq(s, 9, 10))
     IN  m \in 1..12 /\ d \in 1..DaysInMonth(y, m)

(* Date.parse: a date-only ISO string is UTC midnight of that day.  Other  *)
(* strings go to the engine's fallback parser, which rejects every string  *)
(* without a digit; the input alphabet gives date conditions no other      *)
(* digit-bearing string.                                                   *)
DateParse(s) ==
  IF IsIsoDate(s)
    THEN TimeValue(DaysFromCivil(DigitsValue(SubSeq(s, 1, 4)),
                                 DigitsValue(SubSeq(s, 6, 7)),
                                 DigitsValue(SubSeq(s, 9, 10))), 0)
    ELSE InvalidDate

(* new Date(value): null is ToNumber(null) = 0, undefined is NaN, a number *)
(* is a time value in milliseconds, a string is parsed                     *)
NewDate(v) ==
  CASE v.t = "null" -> TimeValue(0, 0)
    [] v.t = "undefined" -> InvalidDate
    [] v.t = "num" -> TimeValue(v.n \div 86400000, v.n % 86400000)
    [] OTHER -> DateParse(v.s)

DateIsNaN(d) == d.k = "nan"

DateLt(a, b) == a.day < b.day \/ (a.day = b.day /\ a.ms < b.ms)

DateLe(a, b) == a.day < b.day \/ (a.day = b.day /\ a.ms <= b.ms)

(* Date#toDateString, the server running in UTC: the calendar day *)
toDateString(d) == d.day

-----------------------------------------------------------------------------
(* Rows: JS objects as ordered (key, value) entries *)

HasKey(row, key) == \E i \in 1..Len(row) : row[i].k = key

(* row[key] *)
Get(row, key) ==
  IF HasKey(row, key)
    THEN row[CHOOSE i \in 1..Len(row) : row[i].k = key].v
    ELSE Undefined

(* Object.keys(row) *)
ObjectKeys(row) == [i \in 1..Len(row) |-> row[i].k]

(* row[key] = value: an own key keeps its place, a new key goes last *)
SetProp(row, key, value) ==
  IF HasKey(row, key)
    THEN [i \in 1..Len(row) |->
            IF row[i].k = key THEN [k |-> key, v |-> value] ELSE row[i]]
    ELSE Append(row, [k |-> key, v |-> value])

(* Array.prototype.includes on a list of column names *)
ListIncludes(list, x) == \E i \in 1..Len(list) : list[i] = x

-----------------------------------------------------------------------------
(* Filter conditions: {column, condition, value, value2} *)

(* A request field that should hold an array *)
Arr(a) == [t |-> "array", a |-> a]

NotArr(t) == [t |-> t, a |-> <<>>]

(* evaluateFilter(row, filter) *)
evaluateFilter(row, filter) ==
  LET column == filter.column
      condition == filter.condition
      value == filter.value
      value2 == filter.value2
      cellValue == Get(row, column)
      cellValueStr == IF cellValue.t # "null" /\ cellValue.t # "undefined"
                        THEN String(cellValue) ELSE <<>>
      num1 == parseFloat(cellValue)
      num2 == parseFloat(value)
      num3 == parseFloat(value2)
      cellDate == NewDate(cellValue)
      filterDate == NewDate(value)
      date2 == NewDate(value2)
  IN  CASE condition = "equals" ->
             ~isNaN(num1) /\ ~isNaN(num2) /\ NumEq(num1, num2)
        [] condition = "notEquals" ->
             isNaN(num1) \/ isNaN(num2) \/ ~NumEq(num1, num2)
        [] condition = "greaterThan" ->
             ~isNaN(num1) /\ ~isNaN(num2) /\ NumLt(num2, num1)
        [] condition = "lessThan" ->
             ~isNaN(num1) /\ ~isNaN(num2) /\ NumLt(num1, num2)
        [] condition = "greaterThanOrEqual" ->
             ~isNaN(num1) /\ ~isNaN(num2) /\ NumLe(num2, num1)
        [] condition = "lessThanOrEqual" ->
             ~isNaN(num1) /\ ~isNaN(num2) /\ NumLe(num1, num2)
        [] condition = "between" ->
             ~isNaN(num1) /\ ~isNaN(num2) /\ ~isNaN(num3)
             /\ NumLe(num2, num1) /\ NumLe(num1, num3)
        [] condition = "contains" ->
             includes(toLowerCase(cellValueStr), toLowerCase(String(value)))
        [] condition = "doesNotContain" ->
             ~includes(toLowerCase(cellValueStr), toLowerCase(String(value)))
        [] condition = "startsWith" ->
             startsWith(toLowerCase(cellValueStr), toLowerCase(String(value)))
        [] condition = "endsWith" ->
             endsWith(toLowerCase(cellValueStr), toLowerCase(String(value)))
        [] condition = "exactMatch" ->
             cellValueStr = String(value)
        [] condition = "before" ->
             ~DateIsNaN(cellDate) /\ ~DateIsNaN(filterDate)
             /\ DateLt(cellDate, filterDate)
        [] condition = "after" ->
             ~DateIsNaN(cellDate) /\ ~DateIsNaN(filterDate)
             /\ DateLt(filterDate, cellDate)
        [] condition = "on" ->
             ~DateIsNaN(cellDate) /\ ~DateIsNaN(filterDate)
             /\ toDateString(cellDate) = toDateString(filterDate)
        [] condition = "betweenDates" ->
             ~DateIsNaN(cellDate) /\ ~DateIsNaN(filterDate) /\ ~DateIsNaN(date2)
             /\ DateLe(filterDate, cellDate) /\ DateLe(cellDate, date2)
        [] condition = "isEmpty" ->
             cellValue.t = "null" \/ cellValue.t = "undefined"
             \/ cellValue = Str(<<>>) \/ trim(cellValueStr) = <<>>
        [] condition = "isNotEmpty" ->
             cellValue.t # "null" /\ cellValue.t # "undefined"
             /\ cellValue # Str(<<>>) /\ trim(cellValueStr) # <<>>
        [] OTHER -> TRUE

(* applyFiltersEvery with notEquals failing closed on unparseable operands *)
applyFiltersEvery_notEqualsClosed(row, filter) ==
  IF filter.condition = "notEquals"
    THEN LET num1 == parseFloat(Get(row, filter.column))
             num2 == parseFloat(filter.value)
         IN  ~isNaN(num1) /\ ~isNaN(num2) /\ ~NumEq(num1, num2)
    ELSE evaluateFilter(row, filter)

(* applyFiltersEvery whose switch falls through to false: a condition it   *)
(* does not know rejects the row                                           *)
applyFiltersEvery_unknownFalse(row, filter) ==
  IF filter.condition \in
       {"equals", "notEquals", "greaterThan", "lessThan",
        "greaterThanOrEqual", "lessThanOrEqual", "between", "contains",
        "doesNotContain", "startsWith", "endsWith", "exactMatch", "before",
        "after", "on", "betweenDates", "isEmpty", "isNotEmpty"}
    THEN evaluateFilter(row, filter)
    ELSE FALSE

(* the callback of filters.every inside applyFilters: its own copy of the  *)
(* switch                                                                  *)
applyFiltersEvery(row, filter) ==
  LET column == filter.column
      condition == filter.condition
      value == filter.value
      value2 == filter.value2
      cellValue == Get(row, column)
      cellValueStr == IF cellValue.t # "null" /\ cellValue.t # "undefined"
                        THEN String(cellValue) ELSE <<>>
      num1 == parseFloat(cellValue)
      num2 == parseFloat(value)
      num3 == parseFloat(value2)
      cellDate == NewDate(cellValue)
      filterDate == NewDate(value)
      date2 == NewDate(value2)
  IN  CASE condition = "equals" ->
             ~isNaN(num1) /\ ~isNaN(num2) /\ NumEq(num1, num2)
        [] condition = "notEquals" ->
             isNaN(num1) \/ isNaN(num2) \/ ~NumEq(num1, num2)
        [] condition = "greaterThan" ->
             ~isNaN(num1) /\ ~isNaN(num2) /\ NumLt(num2, num1)
        [] condition = "lessThan" ->
             ~isNaN(num1) /\ ~isNaN(num2) /\ NumLt(num1, num2)
        [] condition = "greaterThanOrEqual" ->
             ~isNaN(num1) /\ ~isNaN(num2) /\ NumLe(num2, num1)
        [] condition = "lessThanOrEqual" ->
             ~isNaN(num1) /\ ~isNaN(num2) /\ NumLe(num1, num2)
        [] condition = "between" ->
             ~isNaN(num1) /\ ~isNaN(num2) /\ ~isNaN(num3)
             /\ NumLe(num2, num1) /\ NumLe(num1, num3)
        [] condition = "contains" ->
             includes(toLowerCase(cellValueStr), toLowerCase(String(value)))
        [] condition = "doesNotContain" ->
             ~includes(toLowerCase(cellValueStr), toLowerCase(String(value)))
        [] condition = "startsWith" ->
             startsWith(toLowerCase(cellValueStr), toLowerCase(String(value)))
        [] condition = "endsWith" ->
             endsWith(toLowerCase(cellValueStr), toLowerCase(String(value)))
        [] condition = "exactMatch" ->
             cellValueStr = String(value)
        [] condition = "before" ->
             ~DateIsNaN(cellDate) /\ ~DateIsNaN(filterDate)
             /\ DateLt(cellDate, filterDate)
        [] condition = "after" ->
             ~DateIsNaN(cellDate) /\ ~DateIsNaN(filterDate)
             /\ DateLt(filterDate, cellDate)
        [] condition = "on" ->
             ~DateIsNaN(cellDate) /\ ~DateIsNaN(filterDate)
             /\ toDateString(cellDate) = toDateString(filterDate)
        [] condition = "betweenDates" ->
             ~DateIsNaN(cellDate) /\ ~DateIsNaN(filterDate) /\ ~DateIsNaN(date2)
             /\ DateLe(filterDate, cellDate) /\ DateLe(cellDate, date2)
        [] condition = "isEmpty" ->
             cellValue.t = "null" \/ cellValue.t = "undefined"
             \/ cellValue = Str(<<>>) \/ trim(cellValueStr) = <<>>
        [] condition = "isNotEmpty" ->
             cellValue.t # "null" /\ cellValue.t # "undefined"
             /\ cellValue # Str(<<>>) /\ trim(cellValueStr) # <<>>
        [] OTHER -> TRUE

(* Array.prototype.reverse *)
Reverse(a) == [i \in 1..Len(a) |-> a[Len(a) + 1 - i]]

(* applyFilters keeping the matching rows in reverse order *)
applyFilters_reversed(data, filters) ==
  IF filters.t # "array" \/ Len(filters.a) = 0
    THEN data
    ELSE LET keep(row) ==
               \A i \in 1..Len(filters.a) : applyFiltersEvery(row, filters.a[i])
         IN  Reverse(SelectSeq(data, keep))

(* applyFilters without the early return, on filters.some *)
applyFilters_some(data, filters) ==
  IF filters.t # "array"
    THEN data
    ELSE LET keep(row) ==
               \E i \in 1..Len(filters.a) : applyFiltersEvery(row, filters.a[i])
         IN  SelectSeq(data, keep)

(* applyFilters losing the first matching row *)
applyFilters_skipFirst(data, filters) ==
  IF filters.t # "array" \/ Len(filters.a) = 0
    THEN data
    ELSE LET keep(row) ==
               \A i \in 1..Len(filters.a) : applyFiltersEvery(row, filters.a[i])
             kept == SelectSeq(data, keep)
         IN  IF kept = <<>> THEN kept ELSE Tail(kept)

(* applyFilters(data, filters): data.filter(row => filters.every(...)) *)
applyFilters(data, filters) ==
  IF filters.t # "array" \/ Len(filters.a) = 0
    THEN data
    ELSE LET keep(row) ==
               \A i \in 1..Len(filters.a) : applyFiltersEvery(row, filters.a[i])
         IN  SelectSeq(data, keep)

(* applyFiltersWithLogic ignoring the operator *)
applyFiltersWithLogic_alwaysAnd(data, filters, logicOperator) ==
  IF filters.t # "array" \/ Len(filters.a) = 0
    THEN data
    ELSE LET keep(row) ==
               \A i \in 1..Len(filters.a) : evaluateFilter(row, filters.a[i])
         IN  SelectSeq(data, keep)

(* applyFiltersWithLogic(data, filters, logicOperator = 'AND'):            *)
(* filters.some under 'OR', filters.every under anything else              *)
applyFiltersWithLogic(data, filters, logicOperator) ==
  IF filters.t # "array" \/ Len(filters.a) = 0
    THEN data
    ELSE IF logicOperator = "OR"
      THEN LET keep(row) ==
                 \E i \in 1..Len(filters.a) : evaluateFilter(row, filters.a[i])
           IN  SelectSeq(data, keep)
      ELSE LET keep(row) ==
                 \A i \in 1..Len(filters.a) : evaluateFilter(row, filters.a[i])
           IN  SelectSeq(data, keep)

(* slice that takes the element at index end as well *)
slice_inclusiveEnd(a, start, end) ==
  LET len == Len(a)
      from == IF start < 0 THEN (IF len + start < 0 THEN 0 ELSE len + start)
                           ELSE (IF start > len THEN len ELSE start)
      to == IF end < 0 THEN (IF len + end < 0 THEN 0 ELSE len + end)
                       ELSE (IF end >= len THEN len ELSE end + 1)
  IN  SubSeq(a, from + 1, to)

(* Array.prototype.slice(start, end) *)
slice(a, start, end) ==
  LET len == Len(a)
      from == IF start < 0 THEN (IF len + start < 0 THEN 0 ELSE len + start)
                           ELSE (IF start > len THEN len ELSE start)
      to == IF end < 0 THEN (IF len + end < 0 THEN 0 ELSE len + end)
                       ELSE (IF end > len THEN len ELSE end)
  IN  SubSeq(a, from + 1, to)

(* CeilDiv rounding down: Math.floor(n / d) *)
CeilDiv_floor(n, d) == n \div d

(* Math.ceil(n / d) for n >= 0, d >= 1 *)
CeilDiv(n, d) == (n + d - 1) \div d

-----------------------------------------------------------------------------
(* POST /api/filter *)

ErrorResponse(status, error) == [status |-> status, error |-> error]

(* const filteredData = applyFilters(data, filters) *)
FilteredData(b) == applyFilters(b.data.a, b.filters)

(* FilterResponse without the payload check: a non-array filters as an     *)
(* empty list                                                              *)
FilterResponse_noValidation(b) ==
  LET data == b.data.a
      filtered == FilteredData(b)
      totalRows == Len(filtered)
      originalRows == Len(data)
  IN  IF b.page.t # "undefined" /\ b.pageSize.t # "undefined"
        THEN LET startIndex == (b.page.n - 1) * b.pageSize.n
                 endIndex == startIndex + b.pageSize.n
             IN  [status |-> 200, paged |-> TRUE,
                  data |-> slice(filtered, startIndex, endIndex),
                  totalRows |-> totalRows,
                  originalRows |-> originalRows,
                  currentPage |-> b.page.n,
                  totalPages |-> CeilDiv(totalRows, b.pageSize.n),
                  hasMore |-> endIndex < totalRows]
        ELSE [status |-> 200, paged |-> FALSE,
              data |-> filtered,
              totalRows |-> totalRows,
              originalRows |-> originalRows,
              currentPage |-> 0, totalPages |-> 0, hasMore |-> FALSE]

(* res.json(...) of the filter route; paged tells which of the two shapes *)
FilterResponse(b) ==
  IF b.data.t # "array"
    THEN ErrorResponse(400, "Invalid data provided")
    ELSE
      LET data == b.data.a
          filtered == FilteredData(b)
          totalRows == Len(filtered)
          originalRows == Len(data)
      IN  IF b.page.t # "undefined" /\ b.pageSize.t # "undefined"
            THEN LET startIndex == (b.page.n - 1) * b.pageSize.n
                     endIndex == startIndex + b.pageSize.n
                 IN  [status |-> 200, paged |-> TRUE,
                      data |-> slice(filtered, startIndex, endIndex),
                      totalRows |-> totalRows,
                      originalRows |-> originalRows,
                      currentPage |-> b.page.n,
                      totalPages |-> CeilDiv(totalRows, b.pageSize.n),
                      hasMore |-> endIndex < totalRows]
            ELSE [status |-> 200, paged |-> FALSE,
                  data |-> filtered,
                  totalRows |-> totalRows,
                  originalRows |-> originalRows,
                  currentPage |-> 0, totalPages |-> 0, hasMore |-> FALSE]

-----------------------------------------------------------------------------
(* POST /api/reference-filter *)

KeySeparator == <<"|", "|", "|">>

(* Array.prototype.join of character sequences *)
RECURSIVE JoinParts(_, _)
JoinParts(parts, sep) ==
  IF parts = <<>> THEN <<>>
  ELSE IF Len(parts) = 1 THEN parts[1]
  ELSE parts[1] \o sep \o JoinParts(Tail(parts), sep)

(* KeyPart without toLowerCase *)
KeyPart_caseSensitive(value) ==
  IF value.t # "null" /\ value.t # "undefined"
    THEN trim(String(value))
    ELSE <<>>

(* value !== null && value !== undefined                                   *)
(*   ? String(value).toLowerCase().trim() : ''                             *)
KeyPart(value) ==
  IF value.t # "null" /\ value.t # "undefined"
    THEN trim(toLowerCase(String(value)))
    ELSE <<>>

(* the composite key of a reference row *)
refCompositeKey(refRow, keyColumns) ==
  JoinParts([i \in 1..Len(keyColumns) |->
               KeyPart(Get(refRow, keyColumns[i].refColumn))], KeySeparator)

(* the composite key of a primary row *)
primaryCompositeKey(primaryRow, keyColumns) ==
  JoinParts([i \in 1..Len(keyColumns) |->
               KeyPart(Get(primaryRow, keyColumns[i].primaryColumn))],
            KeySeparator)

(* referenceMap: a Map as its entries [key, rows] in insertion order *)
MapHas(map, key) == \E i \in 1..Len(map) : map[i].key = key

MapGet(map, key) ==
  IF MapHas(map, key)
    THEN map[CHOOSE i \in 1..Len(map) : map[i].key = key].rows
    ELSE <<>>

(* one step of filteredReferenceData.forEach: set the key if absent, push *)
MapPush(map, key, refRow) ==
  IF MapHas(map, key)
    THEN [i \in 1..Len(map) |->
            IF map[i].key = key
              THEN [key |-> key, rows |-> Append(map[i].rows, refRow)]
              ELSE map[i]]
    ELSE Append(map, [key |-> key, rows |-> <<refRow>>])

RECURSIVE BuildReferenceMap(_, _, _)
BuildReferenceMap(map, rows, keyColumns) ==
  IF rows = <<>> THEN map
  ELSE BuildReferenceMap(
         MapPush(map, refCompositeKey(rows[1], keyColumns), rows[1]),
         Tail(rows), keyColumns)

(* refHeaders.forEach(header => mergedRow[`ref_${header}`] = refRow[header]) *)
RECURSIVE MergeRefColumns(_, _, _)
MergeRefColumns(mergedRow, refHeaders, refRow) ==
  IF refHeaders = <<>> THEN mergedRow
  ELSE MergeRefColumns(
         SetProp(mergedRow, "ref_" \o refHeaders[1], Get(refRow, refHeaders[1])),
         Tail(refHeaders), refRow)

(* NullRefColumns that adds no column to the unmatched row *)
NullRefColumns_addsNothing(mergedRow, refHeaders) == mergedRow

(* refHeaders.forEach(header => mergedRow[`ref_${header}`] = null) *)
RECURSIVE NullRefColumns(_, _)
NullRefColumns(mergedRow, refHeaders) ==
  IF refHeaders = <<>> THEN mergedRow
  ELSE NullRefColumns(SetProp(mergedRow, "ref_" \o refHeaders[1], Null),
                      Tail(refHeaders))

(* JoinPrimaryRow over a one-to-one map: only the first matching row *)
JoinPrimaryRow_firstMatchOnly(primaryRow, referenceMap, keyColumns, refHeaders, joinType) ==
  LET compositeKey == primaryCompositeKey(primaryRow, keyColumns)
      matchingRefRows == MapGet(referenceMap, compositeKey)
  IN  IF MapHas(referenceMap, compositeKey) /\ Len(matchingRefRows) > 0
        THEN <<MergeRefColumns(primaryRow, refHeaders, matchingRefRows[1])>>
        ELSE IF joinType = "left"
          THEN <<NullRefColumns(primaryRow, refHeaders)>>
          ELSE <<>>

(* JoinPrimaryRow keeping unmatched primary rows whatever the join type *)
JoinPrimaryRow_alwaysLeft(primaryRow, referenceMap, keyColumns, refHeaders, joinType) ==
  LET compositeKey == primaryCompositeKey(primaryRow, keyColumns)
      matchingRefRows == MapGet(referenceMap, compositeKey)
  IN  IF MapHas(referenceMap, compositeKey) /\ Len(matchingRefRows) > 0
        THEN [i \in 1..Len(matchingRefRows) |->
                MergeRefColumns(primaryRow, refHeaders, matchingRefRows[i])]
        ELSE <<NullRefColumns(primaryRow, refHeaders)>>

(* what one primary row pushes onto joinedData *)
JoinPrimaryRow(primaryRow, referenceMap, keyColumns, refHeaders, joinType) ==
  LET compositeKey == primaryCompositeKey(primaryRow, keyColumns)
      matchingRefRows == MapGet(referenceMap, compositeKey)
  IN  IF MapHas(referenceMap, compositeKey) /\ Len(matchingRefRows) > 0
        THEN [i \in 1..Len(matchingRefRows) |->
                MergeRefColumns(primaryRow, refHeaders, matchingRefRows[i])]
        ELSE IF joinType = "left"
          THEN <<NullRefColumns(primaryRow, refHeaders)>>
          ELSE <<>>

(* primaryData.forEach: joinedData, in primary order *)
RECURSIVE JoinRows(_, _, _, _, _)
JoinRows(primaryData, referenceMap, keyColumns, refHeaders, joinType) ==
  IF primaryData = <<>> THEN <<>>
  ELSE JoinPrimaryRow(primaryData[1], referenceMap, keyColumns, refHeaders,
                      joinType)
       \o JoinRows(Tail(primaryData), referenceMap, keyColumns, refHeaders,
                   joinType)

(* MatchedPrimaryKeys as a list of the matched primary rows, not a Set of  *)
(* their keys                                                              *)
MatchedPrimaryKeys_perPrimaryRow(primaryData, referenceMap, keyColumns) ==
  {j \in 1..Len(primaryData) :
     MapHas(referenceMap, primaryCompositeKey(primaryData[j], keyColumns))}

(* matchedPrimaryKeys: the composite keys of the primary rows that matched *)
MatchedPrimaryKeys(primaryData, referenceMap, keyColumns) ==
  {primaryCompositeKey(primaryData[i], keyColumns) :
     i \in {j \in 1..Len(primaryData) :
              MapHas(referenceMap,
                     primaryCompositeKey(primaryData[j], keyColumns))}}

(* FirstBadKeyColumn that looks the key columns up on the reference side   *)
(* only                                                                    *)
FirstBadKeyColumn_refOnly(keyColumns, refHeaders, primaryHeaders) ==
  LET bad == {i \in 1..Len(keyColumns) :
                ~ListIncludes(refHeaders, keyColumns[i].refColumn)}
  IN  IF bad = {} THEN 0 ELSE CHOOSE i \in bad : \A j \in bad : i <= j

(* the first key column the validation loop rejects, 0 when none *)
FirstBadKeyColumn(keyColumns, refHeaders, primaryHeaders) ==
  LET bad == {i \in 1..Len(keyColumns) :
                \/ ~ListIncludes(refHeaders, keyColumns[i].refColumn)
                \/ ~ListIncludes(primaryHeaders, keyColumns[i].primaryColumn)}
  IN  IF bad = {} THEN 0 ELSE CHOOSE i \in bad : \A j \in bad : i <= j

(* AllHeaders that leaves out a prefixed name the primary header has *)
AllHeaders_deduplicated(primaryHeaders, refHeaders) ==
  LET fresh(h) == ~ListIncludes(primaryHeaders, h)
  IN  primaryHeaders
        \o SelectSeq([i \in 1..Len(refHeaders) |-> "ref_" \o refHeaders[i]],
                     fresh)

(* allHeaders: the primary headers, then ref_<header> per reference header *)
AllHeaders(primaryHeaders, refHeaders) ==
  primaryHeaders \o [i \in 1..Len(refHeaders) |-> "ref_" \o refHeaders[i]]

(* FilteredReferenceData that skips Step 1 and indexes every reference row *)
FilteredReferenceData_unfiltered(b) == b.referenceData.a

(* Step 1 of the route: the reference rows the join indexes *)
FilteredReferenceData(b) ==
  IF b.filterConditions.t = "array" /\ Len(b.filterConditions.a) > 0
    THEN applyFiltersWithLogic(b.referenceData.a, b.filterConditions,
           IF b.logicOperator = "undefined" THEN "AND" ELSE b.logicOperator)
    ELSE b.referenceData.a

ReferenceFilterResponse(b) ==
  IF b.referenceData.t # "array" \/ Len(b.referenceData.a) = 0
    THEN ErrorResponse(400,
           "Reference data must be provided as a non-empty array")
  ELSE IF b.primaryData.t # "array" \/ Len(b.primaryData.a) = 0
    THEN ErrorResponse(400,
           "Primary data must be provided as a non-empty array")
  ELSE IF b.keyColumns.t # "array" \/ Len(b.keyColumns.a) = 0
    THEN ErrorResponse(400, "At least one key column must be specified")
  ELSE
    LET referenceData == b.referenceData.a
        primaryData == b.primaryData.a
        keyColumns == b.keyColumns.a
        joinType == IF b.joinType = "undefined" THEN "inner" ELSE b.joinType
        refHeaders == ObjectKeys(referenceData[1])
        primaryHeaders == ObjectKeys(primaryData[1])
        badKey == FirstBadKeyColumn(keyColumns, refHeaders, primaryHeaders)
    IN  IF badKey # 0
          THEN IF ~ListIncludes(refHeaders, keyColumns[badKey].refColumn)
                 THEN ErrorResponse(400, "Reference column \""
                        \o keyColumns[badKey].refColumn \o "\" not found")
                 ELSE ErrorResponse(400, "Primary column \""
                        \o keyColumns[badKey].primaryColumn \o "\" not found")
          ELSE
            LET filteredRefData == FilteredReferenceData(b)
                referenceMap ==
                  BuildReferenceMap(<<>>, filteredRefData, keyColumns)
                joinedData ==
                  JoinRows(primaryData, referenceMap, keyColumns, refHeaders,
                           joinType)
                matchedPrimaryKeys ==
                  MatchedPrimaryKeys(primaryData, referenceMap, keyColumns)
                totalRows == Len(joinedData)
                paged == b.page.t # "undefined" /\ b.pageSize.t # "undefined"
                startIndex == (b.page.n - 1) * b.pageSize.n
                endIndex == startIndex + b.pageSize.n
            IN  [status |-> 200, paged |-> paged,
                 data |-> IF paged
                            THEN slice(joinedData, startIndex, endIndex)
                            ELSE joinedData,
                 headers |-> AllHeaders(primaryHeaders, refHeaders),
                 totalRows |-> totalRows,
                 originalPrimaryRows |-> Len(primaryData),
                 filteredRefRows |-> Len(filteredRefData),
                 matchedRows |-> Cardinality(matchedPrimaryKeys),
                 currentPage |-> IF paged THEN b.page.n ELSE 0,
                 totalPages |-> IF paged
                                  THEN CeilDiv(totalRows, b.pageSize.n) ELSE 0,
                 hasMore |-> paged /\ endIndex < totalRows]

-----------------------------------------------------------------------------
(* POST /api/upload: parseExcel and detectDataType *)

(* Number(value) of a string: white space trimmed, '' is 0, then a whole    *)
(* StrNumericLiteral or NaN (integer literals, as for parseFloat)          *)
StringToNumber(s) ==
  LET t == trim(s)
      neg == t # <<>> /\ t[1] = "-"
      signed == t # <<>> /\ t[1] \in {"-", "+"}
      rest == IF signed THEN Tail(t) ELSE t
  IN  IF t = <<>> THEN Fin(0)
      ELSE IF rest = InfinityLiteral THEN Inf(IF neg THEN -1 ELSE 1)
      ELSE IF rest # <<>> /\ DigitPrefix(rest) = rest
        THEN Fin(IF neg THEN 0 - DigitsValue(rest) ELSE DigitsValue(rest))
      ELSE NaN

(* Number(value) *)
ToNumber(v) ==
  CASE v.t = "null" -> Fin(0)
    [] v.t = "undefined" -> NaN
    [] v.t = "num" -> Fin(v.n)
    [] OTHER -> StringToNumber(v.s)

(* ten characters: digits everywhere but at the two separator places *)
MatchesDigitsAndSeparators(s, sepAt, sep) ==
  /\ Len(s) = 10
  /\ \A i \in 1..10 : IF i \in sepAt THEN s[i] = sep ELSE IsDigit(s[i])

(* datePatterns.some(pattern => pattern.test(dateStr)) *)
MatchesDatePattern(s) ==
  \/ MatchesDigitsAndSeparators(s, {5, 8}, "-")
  \/ MatchesDigitsAndSeparators(s, {3, 6}, "/")
  \/ MatchesDigitsAndSeparators(s, {3, 6}, "-")
  \/ MatchesDigitsAndSeparators(s, {5, 8}, "/")

(* detectDataType(value); cells are null, strings or numbers *)
detectDataType(value) ==
  IF value.t \in {"null", "undefined"} \/ value = Str(<<>>) THEN "text"
  ELSE IF value.t = "num" THEN "number"
  ELSE IF /\ MatchesDatePattern(trim(String(value)))
          /\ ~DateIsNaN(NewDate(Str(trim(String(value)))))
    THEN "date"
  ELSE IF /\ ~isNaN(ToNumber(value))
          /\ ~isNaN(parseFloat(value))
          /\ ToNumber(value).k = "fin"
    THEN "number"
  ELSE "text"

(* .filter(val => val !== null && val !== undefined && val !== '') *)
NonEmptyValues(values) ==
  LET nonEmpty(val) == val.t \notin {"null", "undefined"} /\ val # Str(<<>>)
  IN  SelectSeq(values, nonEmpty)

(* typeCounts[type] after the forEach over the sample *)
TypeCount(values, type) ==
  Cardinality({i \in 1..Len(values) : detectDataType(values[i]) = type})

(* MostCommonType that resolves ties toward text *)
MostCommonType_textFirst(number, date, text) ==
  IF text >= number /\ text >= date THEN "text"
  ELSE IF date >= number THEN "date" ELSE "number"

(* "Use the most common type": the conditional on the three counts *)
MostCommonType(number, date, text) ==
  IF number >= date /\ number >= text THEN "number"
  ELSE IF date >= text THEN "date" ELSE "text"

(* columnTypes[header] from the sampled values of the column *)
ColumnType(sample) ==
  IF Len(sample) = 0 THEN "text"
  ELSE MostCommonType(TypeCount(sample, "number"), TypeCount(sample, "date"),
                      TypeCount(sample, "text"))

(* sampleSize of src/backend/server.js: the first ten rows *)
backendSampleSize(data) == IF 10 <= Len(data) THEN 10 ELSE Len(data)

(* sampleSize: Math.min(100, Math.floor(data.length / 10)) *)
sampleSize(data) ==
  IF 100 <= Len(data) \div 10 THEN 100 ELSE Len(data) \div 10

(* data.slice(0, size).map(row => row[header]).filter(...) per header, as  *)
(* an object keyed by header                                               *)
SampleValues(data, size) ==
  LET headers == ObjectKeys(data[1])
      rows == slice(data, 0, size)
  IN  [h \in 1..Len(headers) |->
         [k |-> headers[h],
          v |-> NonEmptyValues([i \in 1..Len(rows) |->
                                  Get(rows[i], headers[h])])]]

(* what parseExcel returns for the rows sheet_to_json produced *)
ParsedSheet(data, size) ==
  LET samples == SampleValues(data, size)
  IN  [status |-> 200,
       headers |-> ObjectKeys(data[1]),
       data |-> data,
       columnTypes |-> [h \in 1..Len(samples) |->
                          [k |-> samples[h].k, v |-> ColumnType(samples[h].v)]],
       totalRows |-> Len(data)]

(* res.json(parsed), or the 400 of a missing file or an empty sheet *)
UploadResponse(b, size) ==
  IF b.data.t # "array" THEN ErrorResponse(400, "No file uploaded")
  ELSE IF Len(b.data.a) = 0 THEN ErrorResponse(400, "Excel file is empty")
  ELSE ParsedSheet(b.data.a, size)

-----------------------------------------------------------------------------
(* Request bodies *)

MaxRows == 2

MaxFilters == 2

MaxRefRows == 2

MaxPrimaryRows == 2

(* all sequences over S of length lo..hi *)
SeqsOf(S, lo, hi) == UNION {[1..n -> S] : n \in lo..hi}

Cond(column, condition, value, value2) ==
  [column |-> column, condition |-> condition, value |-> value,
   value2 |-> value2]

(* rows of a parsed sheet with the columns amt and d *)
AmtRow(amt, d) == <<[k |-> "amt", v |-> amt], [k |-> "d", v |-> d]>>

FilterRows ==
  { AmtRow(Str(<<"1","5","0">>), Str(<<"2","0","2","4","-","0","1","-","0","1">>)),
    AmtRow(Str(<<"a","b","c">>), Null),
    AmtRow(Num(5), Str(<<>>)) }

FilterConditions ==
  { Cond("amt", "greaterThan", Str(<<"1","0","0">>), Undefined),
    Cond("amt", "notEquals", Str(<<"5">>), Undefined),
    Cond("amt", "contains", Str(<<"B">>), Undefined),
    Cond("d", "isEmpty", Undefined, Undefined),
    Cond("d", "before", Str(<<"2","0","2","4","-","0","2","-","0","1">>),
         Undefined),
    Cond("amt", "regex", Str(<<"a">>), Undefined) }

(* the filters / filterConditions field: absent, null or a list *)
FilterFields ==
  {NotArr("undefined"), NotArr("null")}
    \cup {Arr(f) : f \in SeqsOf(FilterConditions, 0, MaxFilters)}

(* page and pageSize: both absent, or the first or second page of size 1 *)
NoPager == [page |-> Undefined, pageSize |-> Undefined]

Pagers ==
  {NoPager, [page |-> Num(1), pageSize |-> Num(1)],
   [page |-> Num(2), pageSize |-> Num(1)]}

LogicOperators == {"undefined", "AND", "OR"}

JoinTypes == {"undefined", "inner", "left"}

(* the bodies posted to /api/filter; logicOperator is a field the route   *)
(* does not read                                                           *)
IsFilterBody(b) ==
  \E d \in SeqsOf(FilterRows, 0, MaxRows), f \in FilterFields,
     op \in {"undefined", "OR"}, pg \in Pagers :
    b = [route |-> "filter", data |-> Arr(d), filters |-> f,
         logicOperator |-> op, page |-> pg.page, pageSize |-> pg.pageSize]

KeyCol(refColumn, primaryColumn) ==
  [refColumn |-> refColumn, primaryColumn |-> primaryColumn]

JoinBody(referenceData, primaryData, keyColumns, filterConditions, joinType, logicOperator, pg) ==
  [route |-> "reference-filter", referenceData |-> referenceData,
   primaryData |-> primaryData, keyColumns |-> keyColumns,
   filterConditions |-> filterConditions, joinType |-> joinType,
   logicOperator |-> logicOperator, page |-> pg.page,
   pageSize |-> pg.pageSize]

(* reference-filter requests that vary the conditions and the operator     *)
(* over the amt/d reference rows, joined to a two-row primary set on amt   *)
AmtPrimaryData ==
  << <<[k |-> "amt", v |-> Str(<<"A","B","C"," ">>)]>>,
     <<[k |-> "amt", v |-> Str(<<"1","5","0">>)]>> >>

IsFilteredJoinBody(b) ==
  \E d \in SeqsOf(FilterRows, 1, MaxRows), f \in FilterFields,
     jt \in {"undefined", "left"}, op \in LogicOperators :
    b = JoinBody(Arr(d), Arr(AmtPrimaryData), Arr(<<KeyCol("amt", "amt")>>),
                 f, jt, op, NoPager)

(* reference-filter requests that vary the rows, the key columns and the   *)
(* join type: reference rows with the columns id and k                     *)
RefRow(id, k) == <<[k |-> "id", v |-> id], [k |-> "k", v |-> k]>>

RefRows ==
  { RefRow(Str(<<"A","1">>), Str(<<"x">>)),
    RefRow(Str(<<"a","1"," ">>), Str(<<"X">>)),
    RefRow(Num(5), Null) }

(* primary rows with the columns id and col2 *)
PrimaryRow(col2, id, v2) == <<[k |-> "id", v |-> id], [k |-> col2, v |-> v2]>>

PrimaryRows(col2) ==
  { PrimaryRow(col2, Str(<<" ","a","1">>), Str(<<"X"," ">>)),
    PrimaryRow(col2, Str(<<"5">>), Null),
    PrimaryRow(col2, Str(<<"B","2">>), Str(<<"y">>)) }

(* the second primary column: an ordinary name, or one of the form ref_<c> *)
PrimaryCol2 == {"name", "ref_k"}

KeyColumnChoices(col2) ==
  { <<KeyCol("id", "id")>>, <<KeyCol("k", col2)>>,
    <<KeyCol("id", "id"), KeyCol("k", col2)>> }

(* no conditions, or one that drops the reference rows with an empty k *)
RefConditionFields ==
  {NotArr("null"), Arr(<<Cond("k", "isNotEmpty", Undefined, Undefined)>>)}

IsKeyedJoinBody(b) ==
  \E col2 \in PrimaryCol2 :
    \E r \in SeqsOf(RefRows, 1, MaxRefRows),
       p \in SeqsOf(PrimaryRows(col2), 1, MaxPrimaryRows),
       kc \in KeyColumnChoices(col2), f \in RefConditionFields,
       jt \in JoinTypes :
      b = JoinBody(Arr(r), Arr(p), Arr(kc), f, jt, "undefined", NoPager)

-----------------------------------------------------------------------------
(* The single-file UI: state of App, FileUpload, FilterBuilder, DataTable *)

MaxFiles == 2

FileLength == 3

MaxUiFilters == 1

(* the cells of the amt column of an uploadable sheet, by row *)
FileCell(i) ==
  CASE i % 4 = 1 -> Num(12)
    [] i % 4 = 2 -> Str(<<"b">>)
    [] i % 4 = 3 -> Num(3)
    [] OTHER -> Null

(* the rows sheet_to_json yields for file f: the d column tells the files  *)
(* apart                                                                   *)
FileRows(f) == [i \in 1..FileLength |-> AmtRow(FileCell(i), Num(f))]

(* useState initial values of DataTable *)
InitialTable ==
  [sortColumn |-> "", sortDirection |-> "asc", currentPage |-> 1,
   rowsPerPage |-> 50, exporting |-> [excel |-> FALSE, pdf |-> FALSE]]

(* useState initial values of App, FileUpload (uploading) and              *)
(* FilterBuilder (localFilters); shownBy records which handler set         *)
(* filteredData last                                                       *)
InitialApp ==
  [excelData |-> Null, filteredData |-> Null, filters |-> <<>>,
   loading |-> FALSE, uploading |-> FALSE, localFilters |-> <<>>,
   shownBy |-> "none"]

(* a request in flight, with what its handler captured from the render it  *)
(* ran in                                                                  *)
(* requests in flight are told apart by a number: the least one no        *)
(* request in flight has                                                   *)
NextSeq ==
  LET used == {m.seq : m \in network}
  IN  CHOOSE n \in 1..(Cardinality(network) + 1) :
        n \notin used /\ \A k \in 1..(n - 1) : k \in used

Request(kind, file, data, filters, by, exporting) ==
  [seq |-> NextSeq, kind |-> kind, file |-> file, data |-> data,
   filters |-> filters, by |-> by, exporting |-> exporting]

(* the server specifications have no browser *)
NoBrowser ==
  /\ app = InitialApp
  /\ table = InitialTable
  /\ network = {}

(* App renders DataTable when excelData and filteredData are both set *)
TableMounted(a) == a.excelData # Null /\ a.filteredData # Null

(* the DataTable state after App's state changes to a: kept while the      *)
(* table stays mounted, fresh on a mount                                   *)
TableAfter(a) ==
  IF TableMounted(app) /\ TableMounted(a) THEN table ELSE InitialTable

(* response.data of POST /api/upload for file f *)
UploadedSheet(f) ==
  LET parsed == UploadResponse([route |-> "upload", data |-> Arr(FileRows(f))],
                               sampleSize(FileRows(f)))
  IN  [headers |-> parsed.headers, data |-> parsed.data,
       columnTypes |-> parsed.columnTypes, totalRows |-> parsed.totalRows]

(* JSON.stringify({ data, filters }) as the server reads it *)
FilterRequestBody(data, filters) ==
  [route |-> "filter", data |-> Arr(data),
   filters |-> Arr([i \in 1..Len(filters) |->
                      Cond(filters[i].column, filters[i].condition,
                           Str(filters[i].value), Str(filters[i].value2))]),
   logicOperator |-> "undefined", page |-> Undefined, pageSize |-> Undefined]

(* FILTER_CONDITIONS[type]?.[0]?.value || 'equals' *)
DefaultCondition(type) ==
  CASE type = "number" -> "equals"
    [] type = "text" -> "contains"
    [] type = "date" -> "before"
    [] OTHER -> "equals"

(* the id Date.now() gives a new row: only its being different from the   *)
(* ids in use matters, so the least positive integer not in use            *)
NextFilterId(fs) ==
  LET used == {fs[i].id : i \in 1..Len(fs)}
  IN  CHOOSE n \in 1..(Len(fs) + 1) :
        n \notin used /\ \A k \in 1..(n - 1) : k \in used

(* what the user can type or select in a filter row *)
UiFilterValues == {<<>>, <<"1">>, <<"z">>}

UiFilterConditions == {"contains", "exactMatch", "isEmpty"}

-----------------------------------------------------------------------------
(* The single-file UI: event handlers of App, FileUpload and FilterBuilder *)

(* FileUpload.handleFile up to its await: the user drops or picks file f *)
HandleFile(f) ==
  /\ app.excelData = Null
  /\ \A m \in network : m.kind # "upload"
  /\ app' = [app EXCEPT !.uploading = TRUE]
  /\ network' = network \cup {Request("upload", f, <<>>, <<>>, "upload",
                                      InitialTable.exporting)}
  /\ UNCHANGED <<serverVars, table>>

(* the upload answers: handleFile resumes, onFileUploaded(response.data)   *)
(* is App.handleFileUploaded                                               *)
UploadArrives(m) ==
  /\ m \in network /\ m.kind = "upload"
  /\ LET data == UploadedSheet(m.file)
         a == [app EXCEPT !.excelData = data,
                          !.filteredData = Arr(data.data),
                          !.filters = <<>>,
                          !.localFilters = <<>>,
                          !.uploading = FALSE,
                          !.shownBy = "upload"]
     IN  /\ app' = a
         /\ table' = TableAfter(a)
  /\ network' = network \ {m}
  /\ UNCHANGED serverVars

(* the upload fails: handleFile's catch and finally *)
UploadFails(m) ==
  /\ m \in network /\ m.kind = "upload"
  /\ app' = [app EXCEPT !.uploading = FALSE]
  /\ network' = network \ {m}
  /\ UNCHANGED <<serverVars, table>>

(* App: onClick of "Upload New File" *)
UploadNewFile ==
  /\ app.excelData # Null
  /\ LET a == [app EXCEPT !.excelData = Null, !.filteredData = Null,
                          !.filters = <<>>, !.localFilters = <<>>,
                          !.uploading = FALSE, !.shownBy = "none"]
     IN  /\ app' = a
         /\ table' = TableAfter(a)
  /\ UNCHANGED <<serverVars, network>>

(* FilterBuilder.addFilter *)
AddFilter ==
  /\ app.excelData # Null
  /\ Len(app.localFilters) < MaxUiFilters
  /\ LET headers == app.excelData.headers
         newFilter ==
           [id |-> NextFilterId(app.localFilters),
            column |-> headers[1],
            condition |->
              DefaultCondition(Get(app.excelData.columnTypes, headers[1])),
            value |-> <<>>, value2 |-> <<>>]
     IN  app' = [app EXCEPT
                   !.localFilters = Append(app.localFilters, newFilter),
                   !.filters = Append(app.localFilters, newFilter)]
  /\ UNCHANGED <<serverVars, table, network>>

(* FilterBuilder.removeFilter(id) *)
RemoveFilter(id) ==
  /\ app.excelData # Null
  /\ \E i \in 1..Len(app.localFilters) : app.localFilters[i].id = id
  /\ LET keep(f) == f.id # id
         updated == SelectSeq(app.localFilters, keep)
     IN  app' = [app EXCEPT !.localFilters = updated, !.filters = updated]
  /\ UNCHANGED <<serverVars, table, network>>

(* the filter row f after updateFilter sets field to value *)
UpdatedFilter(f, field, value) ==
  LET set == IF field = "condition" THEN [f EXCEPT !.condition = value]
             ELSE [f EXCEPT !.value = value]
      reset == IF field = "condition" THEN [set EXCEPT !.value2 = <<>>]
               ELSE set
  IN  IF value = "isEmpty" \/ value = "isNotEmpty"
        THEN [reset EXCEPT !.value = <<>>] ELSE reset

(* FilterBuilder.updateFilter(id, field, value) for the condition select   *)
(* and the value input                                                     *)
UpdateFilter(id, field, value) ==
  /\ app.excelData # Null
  /\ \E i \in 1..Len(app.localFilters) : app.localFilters[i].id = id
  /\ LET updated ==
           [i \in 1..Len(app.localFilters) |->
              IF app.localFilters[i].id = id
                THEN UpdatedFilter(app.localFilters[i], field, value)
                ELSE app.localFilters[i]]
     IN  app' = [app EXCEPT !.localFilters = updated, !.filters = updated]
  /\ UNCHANGED <<serverVars, table, network>>

(* App.handleApplyFilters(data, filters) up to its await, by says which    *)
(* button called it                                                        *)
SendFilterRequest(a, data, filters, by) ==
  /\ app' = [a EXCEPT !.loading = TRUE]
  /\ network' = network \cup {Request("filter", 0, data, filters, by,
                                      InitialTable.exporting)}

(* FilterBuilder.handleApply: onApplyFilters is the closure of the last    *)
(* render, handleApplyFilters(excelData.data, filters)                     *)
HandleApply ==
  /\ app.excelData # Null
  /\ Len(app.localFilters) > 0
  /\ ~app.loading
  /\ SendFilterRequest(app, app.excelData.data, app.filters, "apply")
  /\ UNCHANGED <<serverVars, table>>

(* FilterBuilder: onClick of "Clear All".  setLocalFilters([]) and         *)
(* onFiltersChange([]) take effect at the next render; onApplyFilters is   *)
(* the closure of the last render and passes the filters of that render    *)
ClearAll ==
  /\ app.excelData # Null
  /\ Len(app.localFilters) > 0
  /\ ~app.loading
  /\ SendFilterRequest([app EXCEPT !.localFilters = <<>>, !.filters = <<>>],
                       app.excelData.data, app.filters, "clearAll")
  /\ UNCHANGED <<serverVars, table>>

(* the filter request answers with 200: setFilteredData(result.data), then *)
(* the finally                                                             *)
FilterArrives(m) ==
  /\ m \in network /\ m.kind = "filter"
  /\ LET result == FilterResponse(FilterRequestBody(m.data, m.filters))
         a == [app EXCEPT !.filteredData = Arr(result.data),
                          !.loading = FALSE,
                          !.shownBy = m.by]
     IN  /\ result.status = 200
         /\ app' = a
         /\ table' = TableAfter(a)
  /\ network' = network \ {m}
  /\ UNCHANGED serverVars

(* the filter request fails: the catch, then the finally *)
FilterFails(m) ==
  /\ m \in network /\ m.kind = "filter"
  /\ app' = [app EXCEPT !.loading = FALSE]
  /\ network' = network \ {m}
  /\ UNCHANGED <<serverVars, table>>

-----------------------------------------------------------------------------
(* The single-file UI: DataTable *)

MaxCurrentPage == 4

(* String.prototype.localeCompare on lower-cased text over the characters  *)
(* of the sheets: white space and punctuation sort before digits, digits   *)
(* before letters                                                          *)
CollationOrder == <<" ", "-", ".">> \o Digits \o LowerCase

CharRank(c) ==
  IF \E i \in 1..Len(CollationOrder) : CollationOrder[i] = c
    THEN CHOOSE i \in 1..Len(CollationOrder) : CollationOrder[i] = c
    ELSE 0

(* the sign of a.localeCompare(b) *)
RECURSIVE localeCompare(_, _)
localeCompare(a, b) ==
  IF a = <<>> /\ b = <<>> THEN 0
  ELSE IF a = <<>> THEN -1
  ELSE IF b = <<>> THEN 1
  ELSE IF CharRank(a[1]) < CharRank(b[1]) THEN -1
  ELSE IF CharRank(a[1]) > CharRank(b[1]) THEN 1
  ELSE localeCompare(Tail(a), Tail(b))

(* the sign of the sort callback's result for the rows a and b *)
compareRows(a, b, sortColumn, sortDirection) ==
  LET aCell == Get(a, sortColumn)
      bCell == Get(b, sortColumn)
      aVal == IF aCell.t \in {"null", "undefined"} THEN Str(<<>>) ELSE aCell
      bVal == IF bCell.t \in {"null", "undefined"} THEN Str(<<>>) ELSE bCell
      aNum == parseFloat(aVal)
      bNum == parseFloat(bVal)
      isNumeric == aNum.k = "fin" /\ bNum.k = "fin"
      aStr == toLowerCase(String(aVal))
      bStr == toLowerCase(String(bVal))
  IN  IF isNumeric
        THEN IF sortDirection = "asc"
               THEN (IF aNum.v < bNum.v THEN -1
                     ELSE IF aNum.v > bNum.v THEN 1 ELSE 0)
               ELSE (IF bNum.v < aNum.v THEN -1
                     ELSE IF bNum.v > aNum.v THEN 1 ELSE 0)
        ELSE IF sortDirection = "asc" THEN localeCompare(aStr, bStr)
        ELSE localeCompare(bStr, aStr)

(* InsertRow that replaces a row the callback ranks equal *)
InsertRow_replacesTies(sorted, row, sortColumn, sortDirection) ==
  LET notBefore == {i \in 1..Len(sorted) :
                      compareRows(row, sorted[i], sortColumn, sortDirection) <= 0}
      p == IF notBefore = {} THEN Len(sorted) + 1
           ELSE CHOOSE i \in notBefore : \A j \in notBefore : i <= j
  IN  IF p <= Len(sorted)
         /\ compareRows(row, sorted[p], sortColumn, sortDirection) = 0
        THEN [sorted EXCEPT ![p] = row]
        ELSE SubSeq(sorted, 1, p - 1) \o <<row>> \o SubSeq(sorted, p, Len(sorted))

(* one step of the stable sort: row goes before the first row the callback *)
(* ranks after it                                                          *)
InsertRow(sorted, row, sortColumn, sortDirection) ==
  LET after == {i \in 1..Len(sorted) :
                  compareRows(row, sorted[i], sortColumn, sortDirection) < 0}
      p == IF after = {} THEN Len(sorted) + 1
           ELSE CHOOSE i \in after : \A j \in after : i <= j
  IN  SubSeq(sorted, 1, p - 1) \o <<row>> \o SubSeq(sorted, p, Len(sorted))

(* [...data].sort(callback): Array.prototype.sort is stable *)
RECURSIVE SortRows(_, _, _, _)
SortRows(sorted, rest, sortColumn, sortDirection) ==
  IF rest = <<>> THEN sorted
  ELSE SortRows(InsertRow(sorted, rest[1], sortColumn, sortDirection),
                Tail(rest), sortColumn, sortDirection)

(* the sortedData memo of DataTable *)
sortedData(data, sortColumn, sortDirection) ==
  IF sortColumn = "" THEN data
  ELSE SortRows(<<>>, data, sortColumn, sortDirection)

(* the data prop of the mounted DataTable *)
TableData == app.filteredData.a

(* sortedData, totalPages and paginatedData of the last render *)
TableSortedData == sortedData(TableData, table.sortColumn, table.sortDirection)

totalPages == CeilDiv(Len(TableSortedData), table.rowsPerPage)

paginatedData ==
  LET startIndex == (table.currentPage - 1) * table.rowsPerPage
  IN  slice(TableSortedData, startIndex, startIndex + table.rowsPerPage)

(* the header row, the rows-per-page select and the rows are rendered *)
TableHasRows == TableMounted(app) /\ Len(TableSortedData) > 0

(* the pagination buttons are rendered *)
PagerShown == TableHasRows /\ totalPages > 1

(* DataTable.handleSort(column): a click on a header *)
HandleSort(column) ==
  /\ TableHasRows
  /\ ListIncludes(app.excelData.headers, column)
  /\ table' = IF table.sortColumn = column
                THEN [table EXCEPT
                        !.sortDirection =
                          IF table.sortDirection = "asc" THEN "desc" ELSE "asc",
                        !.currentPage = 1]
                ELSE [table EXCEPT !.sortColumn = column,
                                   !.sortDirection = "asc",
                                   !.currentPage = 1]
  /\ UNCHANGED <<serverVars, app, network>>

(* the option values of the rows-per-page select *)
RowsPerPageOptions == {25, 50, 100, 200, Len(TableSortedData)}

(* onChange of the rows-per-page select *)
RowsPerPageChange(value) ==
  /\ TableHasRows
  /\ value \in RowsPerPageOptions
  /\ table' = [table EXCEPT !.rowsPerPage = value, !.currentPage = 1]
  /\ UNCHANGED <<serverVars, app, network>>

(* onClick of First *)
FirstPage ==
  /\ PagerShown /\ table.currentPage # 1
  /\ table' = [table EXCEPT !.currentPage = 1]
  /\ UNCHANGED <<serverVars, app, network>>

(* onClick of Previous *)
PreviousPage ==
  /\ PagerShown /\ table.currentPage # 1
  /\ table' = [table EXCEPT !.currentPage = table.currentPage - 1]
  /\ UNCHANGED <<serverVars, app, network>>

(* onClick of Next *)
NextPage ==
  /\ PagerShown /\ table.currentPage # totalPages
  /\ table.currentPage < MaxCurrentPage
  /\ table' = [table EXCEPT !.currentPage = table.currentPage + 1]
  /\ UNCHANGED <<serverVars, app, network>>

(* onClick of Last *)
LastPage ==
  /\ PagerShown /\ table.currentPage # totalPages
  /\ table' = [table EXCEPT !.currentPage = totalPages]
  /\ UNCHANGED <<serverVars, app, network>>

-----------------------------------------------------------------------------
(* The single-file UI: the export buttons of DataTable *)

MaxExports == 3

ExportsInFlight == {m \in network : m.kind \in {"export-excel", "export-pdf"}}

(* DataTable.handleExportExcel up to its await; the handler keeps the      *)
(* exporting object of the render it was created in                        *)
HandleExportExcel ==
  /\ TableHasRows
  /\ ~table.exporting.excel
  /\ Cardinality(ExportsInFlight) < MaxExports
  /\ table' = [table EXCEPT !.exporting = [table.exporting EXCEPT !.excel = TRUE]]
  /\ network' = network \cup {Request("export-excel", 0, TableSortedData, <<>>,
                                      "excel", table.exporting)}
  /\ UNCHANGED <<serverVars, app>>

(* the Excel export settles, with the file or with an error: the finally   *)
(* of handleExportExcel, setExporting({ ...exporting, excel: false }) with *)
(* the exporting object the handler kept                                   *)
ExportExcelSettles(m) ==
  /\ m \in network /\ m.kind = "export-excel"
  /\ table' = [table EXCEPT !.exporting = [m.exporting EXCEPT !.excel = FALSE]]
  /\ network' = network \ {m}
  /\ UNCHANGED <<serverVars, app>>

(* DataTable.handleExportPDF up to its await *)
HandleExportPDF ==
  /\ TableHasRows
  /\ ~table.exporting.pdf
  /\ Cardinality(ExportsInFlight) < MaxExports
  /\ table' = [table EXCEPT !.exporting = [table.exporting EXCEPT !.pdf = TRUE]]
  /\ network' = network \cup {Request("export-pdf", 0, TableSortedData, <<>>,
                                      "pdf", table.exporting)}
  /\ UNCHANGED <<serverVars, app>>

(* the PDF export settles: the finally of handleExportPDF *)
ExportPDFSettles(m) ==
  /\ m \in network /\ m.kind = "export-pdf"
  /\ table' = [table EXCEPT !.exporting = [m.exporting EXCEPT !.pdf = FALSE]]
  /\ network' = network \ {m}
  /\ UNCHANGED <<serverVars, app>>

-----------------------------------------------------------------------------
(* The server: one request in flight, answered by its route's handler *)

NoResponse == [status |-> 0, error |-> ""]

Init ==
  /\ pc = "request"
  /\ IsFilterBody(body) \/ IsFilteredJoinBody(body) \/ IsKeyedJoinBody(body)
  /\ res = NoResponse
  /\ filteredData = <<>>
  /\ filteredReferenceData = <<>>
  /\ sampleValues = <<>>
  /\ NoBrowser

(* app.post('/api/filter', ...) *)
PostFilter ==
  /\ pc = "request"
  /\ body.route = "filter"
  /\ res' = FilterResponse(body)
  /\ filteredData' = IF body.data.t = "array"
                       THEN FilteredData(body) ELSE <<>>
  /\ pc' = "done"
  /\ UNCHANGED <<body, filteredReferenceData, sampleValues, browserVars>>

(* app.post('/api/reference-filter', ...) *)
PostReferenceFilter ==
  /\ pc = "request"
  /\ body.route = "reference-filter"
  /\ res' = ReferenceFilterResponse(body)
  /\ filteredReferenceData' =
       IF res'.status = 200 THEN FilteredReferenceData(body) ELSE <<>>
  /\ pc' = "done"
  /\ UNCHANGED <<body, filteredData, sampleValues, browserVars>>

Next == PostFilter \/ PostReferenceFilter

Spec == Init /\ [][Next]_vars

-----------------------------------------------------------------------------
(* Requests that exercise the validation of the two routes *)

(* payloads that are not arrays: absent, null, an object, a string *)
NonArrays ==
  {NotArr("undefined"), NotArr("null"), NotArr("object"), NotArr("string")}

(* a data field: not an array, an empty array, or rows *)
DataFields(rows, hi) == NonArrays \cup {Arr(d) : d \in SeqsOf(rows, 0, hi)}

(* keyColumns over reference columns id, k and primary columns id, name:   *)
(* not an array, empty, pairs that exist, and pairs naming a column that   *)
(* is absent from its side (name is a primary column, k a reference one)   *)
KeyColumnFields ==
  {NotArr("undefined"), NotArr("null"), Arr(<<>>)}
    \cup {Arr(kc) : kc \in
            { <<KeyCol("id", "id")>>, <<KeyCol("k", "name")>>,
              <<KeyCol("name", "id")>>, <<KeyCol("id", "k")>>,
              <<KeyCol("zz", "zz")>>,
              <<KeyCol("id", "id"), KeyCol("zz", "name")>>,
              <<KeyCol("id", "id"), KeyCol("k", "zz")>>,
              <<KeyCol("id", "k"), KeyCol("name", "id")>> }}

IsValidationFilterBody(b) ==
  \E d \in DataFields(FilterRows, MaxRows), f \in FilterFields,
     pg \in {NoPager, [page |-> Num(1), pageSize |-> Num(1)]} :
    b = [route |-> "filter", data |-> d, filters |-> f,
         logicOperator |-> "undefined", page |-> pg.page,
         pageSize |-> pg.pageSize]

IsValidationJoinBody(b) ==
  \E r \in DataFields(RefRows, MaxRefRows),
     p \in DataFields(PrimaryRows("name"), 1),
     kc \in KeyColumnFields, f \in RefConditionFields,
     jt \in {"undefined", "left"} :
    b = JoinBody(r, p, kc, f, jt, "undefined", NoPager)

ValidationInit ==
  /\ pc = "request"
  /\ IsValidationFilterBody(body) \/ IsValidationJoinBody(body)
  /\ res = NoResponse
  /\ filteredData = <<>>
  /\ filteredReferenceData = <<>>
  /\ sampleValues = <<>>
  /\ NoBrowser

ValidationSpec == ValidationInit /\ [][Next]_vars

-----------------------------------------------------------------------------
(* Requests that ask for one page of a longer result *)

MaxPageRows == 5

MaxPage == 4

MaxPageSize == 3

(* the i-th row of a sheet whose amt column counts the rows *)
PageRow(i) == AmtRow(Num(i), Null)

(* no conditions, or one that drops the first row *)
PageFilterFields ==
  {NotArr("undefined"),
   Arr(<<Cond("amt", "greaterThan", Str(<<"1">>), Undefined)>>)}

IsPagedFilterBody(b) ==
  \E n \in 0..MaxPageRows, f \in PageFilterFields,
     p \in 1..MaxPage, s \in 1..MaxPageSize :
    b = [route |-> "filter", data |-> Arr([i \in 1..n |-> PageRow(i)]),
         filters |-> f, logicOperator |-> "undefined",
         page |-> Num(p), pageSize |-> Num(s)]

(* two reference rows with the key 1: a primary row with id 1 pairs with   *)
(* both, a primary row with id 0 with none                                 *)
PageReferenceData ==
  <<RefRow(Num(1), Str(<<"x">>)), RefRow(Num(1), Str(<<"y">>))>>

PagePrimaryRow(i) == PrimaryRow("name", Num(i % 2), Num(i))

IsPagedJoinBody(b) ==
  \E n \in 1..MaxPageRows, jt \in {"inner", "left"},
     p \in 1..MaxPage, s \in 1..MaxPageSize :
    b = JoinBody(Arr(PageReferenceData),
                 Arr([i \in 1..n |-> PagePrimaryRow(i)]),
                 Arr(<<KeyCol("id", "id")>>), NotArr("undefined"), jt,
                 "undefined", [page |-> Num(p), pageSize |-> Num(s)])

PagingInit ==
  /\ pc = "request"
  /\ IsPagedFilterBody(body) \/ IsPagedJoinBody(body)
  /\ res = NoResponse
  /\ filteredData = <<>>
  /\ filteredReferenceData = <<>>
  /\ sampleValues = <<>>
  /\ NoBrowser

PagingSpec == PagingInit /\ [][Next]_vars

-----------------------------------------------------------------------------
(* Uploaded sheets: the rows sheet_to_json yields, with the columns v, w *)

MaxSampleRows == 4

(* blank cells (defval null, or an empty string), numbers, numerals, ISO   *)
(* dates and words                                                         *)
SheetCells ==
  { Null, Str(<<>>), Num(1), Num(2), Str(<<"3">>),
    Str(<<"2","0","2","4","-","0","1","-","0","1">>),
    Str(<<"2","0","2","4","-","0","2","-","0","2">>),
    Str(<<"a","b","c">>), Str(<<"1","2","a","b","c">>) }

(* a row of the sheet: column v varies, column w is blank *)
SheetRow(v) == <<[k |-> "v", v |-> v], [k |-> "w", v |-> Null]>>

(* a sheet of n rows: the given leading cells of column v, then blanks *)
Sheet(cells, n) ==
  [i \in 1..n |-> SheetRow(IF i <= Len(cells) THEN cells[i] ELSE Null)]

(* the uploads: no file, an empty sheet, or a sheet whose leading cells    *)
(* are followed by blank rows up to one or ten times their number          *)
IsUploadBody(b) ==
  \/ b = [route |-> "upload", data |-> NotArr("undefined")]
  \/ b = [route |-> "upload", data |-> Arr(<<>>)]
  \/ \E cells \in SeqsOf(SheetCells, 1, MaxSampleRows) :
       \E n \in {Len(cells), 10 * Len(cells)} :
         b = [route |-> "upload", data |-> Arr(Sheet(cells, n))]

UploadInit ==
  /\ pc = "request"
  /\ IsUploadBody(body)
  /\ res = NoResponse
  /\ filteredData = <<>>
  /\ filteredReferenceData = <<>>
  /\ sampleValues = <<>>
  /\ NoBrowser

(* app.post('/api/upload', ...) of the server *)
PostUpload ==
  /\ pc = "request"
  /\ body.route = "upload"
  /\ res' = UploadResponse(body, sampleSize(body.data.a))
  /\ sampleValues' = IF res'.status = 200
                       THEN SampleValues(body.data.a, sampleSize(body.data.a))
                       ELSE <<>>
  /\ pc' = "done"
  /\ UNCHANGED <<body, filteredData, filteredReferenceData, browserVars>>

(* app.post('/api/upload', ...) of src/backend/server.js *)
BackendPostUpload ==
  /\ pc = "request"
  /\ body.route = "upload"
  /\ res' = UploadResponse(body, backendSampleSize(body.data.a))
  /\ sampleValues' =
       IF res'.status = 200
         THEN SampleValues(body.data.a, backendSampleSize(body.data.a))
         ELSE <<>>
  /\ pc' = "done"
  /\ UNCHANGED <<body, filteredData, filteredReferenceData, browserVars>>

UploadNext == PostUpload \/ BackendPostUpload

UploadSpec == UploadInit /\ [][UploadNext]_vars

-----------------------------------------------------------------------------
(* Requests that exercise the numeric conditions and unknown conditions *)

MaxNumericRows == 2

(* a row with the single column amt *)
NumericRow(amt) == <<[k |-> "amt", v |-> amt]>>

(* cells: numerals, a number, a word, the numeral Infinity, a blank *)
NumericCells ==
  { Str(<<"1","5","0">>), Num(5), Str(<<"a","b","c">>),
    Str(InfinityLiteral), Null }

(* comparison values, as text or absent *)
NumericValues ==
  { Str(<<"1","0","0">>), Str(<<"5">>), Str(<<"a","b","c">>),
    Str(InfinityLiteral), Undefined }

NumericValues2 == {Str(<<"2","0","0">>), Str(<<"x">>), Undefined}

NumericConditions ==
  {Cond("amt", kind, v, Undefined) :
     kind \in {"equals", "notEquals", "greaterThan", "lessThan",
               "greaterThanOrEqual", "lessThanOrEqual"},
     v \in NumericValues}
    \cup {Cond("amt", "between", v, v2) :
            v \in NumericValues, v2 \in NumericValues2}

(* condition names the switch has no case for *)
UnknownConditions ==
  {Cond("amt", kind, Str(<<"1","0","0">>), Undefined) :
     kind \in {"regex", "Equals"}}

(* one condition; equals and notEquals of one value; a numeric condition   *)
(* beside an unknown one, in either order                                  *)
NumericConditionLists ==
  {<<c>> : c \in NumericConditions \cup UnknownConditions}
    \cup {<<Cond("amt", "equals", v, Undefined),
            Cond("amt", "notEquals", v, Undefined)>> : v \in NumericValues}
    \cup {<<c, u>> : c \in NumericConditions, u \in UnknownConditions}
    \cup {<<u, c>> : c \in NumericConditions, u \in UnknownConditions}

IsNumericFilterBody(b) ==
  \E cells \in SeqsOf(NumericCells, 1, MaxNumericRows),
     f \in NumericConditionLists :
    b = [route |-> "filter",
         data |-> Arr([i \in 1..Len(cells) |-> NumericRow(cells[i])]),
         filters |-> Arr(f), logicOperator |-> "undefined",
         page |-> Undefined, pageSize |-> Undefined]

IsNumericJoinBody(b) ==
  \E cells \in SeqsOf(NumericCells, 1, MaxNumericRows),
     f \in NumericConditionLists, op \in {"undefined", "OR"} :
    b = JoinBody(Arr([i \in 1..Len(cells) |-> NumericRow(cells[i])]),
                 Arr(<<NumericRow(Str(<<"1","5","0">>))>>),
                 Arr(<<KeyCol("amt", "amt")>>), Arr(f), "left", op, NoPager)

EvaluatorInit ==
  /\ pc = "request"
  /\ IsNumericFilterBody(body) \/ IsNumericJoinBody(body)
  /\ res = NoResponse
  /\ filteredData = <<>>
  /\ filteredReferenceData = <<>>
  /\ sampleValues = <<>>
  /\ NoBrowser

EvaluatorSpec == EvaluatorInit /\ [][Next]_vars

-----------------------------------------------------------------------------
(* Requests that exercise the date conditions and the emptiness checks *)

MaxCellRows == 2

(* cells of the column d as the sheet reader and JSON deliver them: a      *)
(* blank cell (defval null), empty and blank text, two dates, a word       *)
DateCells ==
  { Null, Str(<<>>), Str(<<" ">>), Str(<<" ", "\t">>),
    Str(<<"2","0","2","4","-","0","1","-","0","1">>),
    Str(<<"2","0","2","4","-","0","3","-","0","1">>),
    Str(<<"a","b","c">>) }

(* a row with the columns id and d; under Undefined the row has no column  *)
(* d at all                                                                *)
CellRow(c) ==
  IF c.t = "undefined" THEN <<[k |-> "id", v |-> Num(1)]>>
  ELSE <<[k |-> "id", v |-> Num(1)], [k |-> "d", v |-> c]>>

(* comparison values: two dates, a word, empty text, absent *)
DateValues ==
  { Str(<<"2","0","2","4","-","0","2","-","0","1">>),
    Str(<<"2","0","2","4","-","0","1","-","0","1">>),
    Str(<<"a","b","c">>), Str(<<>>), Undefined }

DateValues2 ==
  {Str(<<"2","0","2","4","-","0","3","-","0","1">>), Str(<<"x">>), Undefined}

DateConditions ==
  {Cond("d", kind, v, Undefined) :
     kind \in {"before", "after", "on"}, v \in DateValues}
    \cup {Cond("d", "betweenDates", v, v2) :
            v \in DateValues, v2 \in DateValues2}

EmptinessConditions ==
  {Cond("d", kind, Undefined, Undefined) : kind \in {"isEmpty", "isNotEmpty"}}

(* one condition, or the two emptiness checks together in either order *)
CellConditionLists ==
  {<<c>> : c \in DateConditions \cup EmptinessConditions}
    \cup {<<c, d>> : c \in EmptinessConditions, d \in EmptinessConditions}

IsCellFilterBody(b) ==
  \E cells \in SeqsOf(DateCells \cup {Undefined}, 1, MaxCellRows),
     f \in CellConditionLists :
    b = [route |-> "filter",
         data |-> Arr([i \in 1..Len(cells) |-> CellRow(cells[i])]),
         filters |-> Arr(f), logicOperator |-> "undefined",
         page |-> Undefined, pageSize |-> Undefined]

(* two primary rows: the first has the id of every reference row, the     *)
(* second an id no reference row has                                       *)
CellPrimaryData == <<CellRow(Undefined), <<[k |-> "id", v |-> Num(2)]>>>>

IsCellJoinBody(b) ==
  \E cells \in SeqsOf(DateCells \cup {Undefined}, 1, MaxCellRows),
     f \in CellConditionLists, jt \in {"inner", "left"},
     op \in {"undefined", "OR"} :
    b = JoinBody(Arr([i \in 1..Len(cells) |-> CellRow(cells[i])]),
                 Arr(CellPrimaryData),
                 Arr(<<KeyCol("id", "id")>>), Arr(f), jt, op, NoPager)

CellInit ==
  /\ pc = "request"
  /\ IsCellFilterBody(body) \/ IsCellJoinBody(body)
  /\ res = NoResponse
  /\ filteredData = <<>>
  /\ filteredReferenceData = <<>>
  /\ sampleValues = <<>>
  /\ NoBrowser

CellSpec == CellInit /\ [][Next]_vars

-----------------------------------------------------------------------------
(* Reference-filter requests whose key values contain the key separator *)

MaxKeyRefRows == 2

(* a row with the columns a and b *)
KeyRow(a, b) == <<[k |-> "a", v |-> a], [k |-> "b", v |-> b]>>

(* rows whose key values hold the separator, differ in case and white      *)
(* space, or are blank                                                     *)
KeyRows ==
  { KeyRow(Str(<<"x","|","|","|","y">>), Str(<<"z">>)),
    KeyRow(Str(<<"x">>), Str(<<"y","|","|","|","z">>)),
    KeyRow(Str(<<"x">>), Str(<<"z">>)),
    KeyRow(Str(<<"X"," ">>), Str(<<"z">>)),
    KeyRow(Null, Str(<<>>)),
    KeyRow(Str(<<>>), Null) }

(* one key pair, or two *)
SeparatorKeyColumns ==
  {<<KeyCol("a", "a")>>, <<KeyCol("a", "a"), KeyCol("b", "b")>>}

IsSeparatorJoinBody(b) ==
  \E r \in SeqsOf(KeyRows, 1, MaxKeyRefRows),
     p \in {<<x>> : x \in KeyRows} \cup {<<x, y>> : x, y \in KeyRows},
     kc \in SeparatorKeyColumns, jt \in JoinTypes :
    b = JoinBody(Arr(r), Arr(p), Arr(kc), NotArr("null"), jt, "undefined",
                 NoPager)

SeparatorInit ==
  /\ pc = "request"
  /\ IsSeparatorJoinBody(body)
  /\ res = NoResponse
  /\ filteredData = <<>>
  /\ filteredReferenceData = <<>>
  /\ sampleValues = <<>>
  /\ NoBrowser

SeparatorSpec == SeparatorInit /\ [][PostReferenceFilter]_vars

-----------------------------------------------------------------------------
(* The single-file App: uploads, filters and their requests *)

AppInit ==
  /\ pc = "done"
  /\ body = [route |-> "none"]
  /\ res = NoResponse
  /\ filteredData = <<>>
  /\ filteredReferenceData = <<>>
  /\ sampleValues = <<>>
  /\ NoBrowser

AppNext ==
  \/ \E f \in 1..MaxFiles : HandleFile(f)
  \/ \E m \in network : UploadArrives(m)
  \/ \E m \in network : UploadFails(m)
  \/ UploadNewFile
  \/ AddFilter
  \/ \E id \in 1..MaxUiFilters : RemoveFilter(id)
  \/ \E id \in 1..MaxUiFilters, v \in UiFilterValues :
       UpdateFilter(id, "value", v)
  \/ \E id \in 1..MaxUiFilters, c \in UiFilterConditions :
       UpdateFilter(id, "condition", c)
  \/ HandleApply
  \/ ClearAll
  \/ \E m \in network : FilterArrives(m)
  \/ \E m \in network : FilterFails(m)

AppSpec == AppInit /\ [][AppNext]_vars

-----------------------------------------------------------------------------
(* The DataTable of a loaded file: sorting, paging, new filter results *)

(* App with file f loaded and no filter *)
LoadedApp(f) ==
  [InitialApp EXCEPT !.excelData = UploadedSheet(f),
                     !.filteredData = Arr(UploadedSheet(f).data),
                     !.shownBy = "upload"]

TableInit ==
  /\ pc = "done"
  /\ body = [route |-> "none"]
  /\ res = NoResponse
  /\ filteredData = <<>>
  /\ filteredReferenceData = <<>>
  /\ sampleValues = <<>>
  /\ app = LoadedApp(1)
  /\ table = InitialTable
  /\ network = {}

TableNext ==
  \/ \E c \in {"amt", "d"} : HandleSort(c)
  \/ \E v \in {25, 50, 100, 200} \cup (1..FileLength) : RowsPerPageChange(v)
  \/ FirstPage
  \/ PreviousPage
  \/ NextPage
  \/ LastPage
  \/ AddFilter
  \/ \E id \in 1..MaxUiFilters, v \in UiFilterValues :
       UpdateFilter(id, "value", v)
  \/ HandleApply
  \/ \E m \in network : FilterArrives(m)

TableSpec == TableInit /\ [][TableNext]_vars

-----------------------------------------------------------------------------
(* The DataTable of a loaded file: exports and their completions *)

ExportNext ==
  \/ \E c \in {"amt", "d"} : HandleSort(c)
  \/ HandleExportExcel
  \/ \E m \in network : ExportExcelSettles(m)
  \/ HandleExportPDF
  \/ \E m \in network : ExportPDFSettles(m)

ExportSpec == TableInit /\ [][ExportNext]_vars

-----------------------------------------------------------------------------
(* Properties of the filter engine *)

Done == pc = "done"

FilterDone == Done /\ body.route = "filter" /\ res.status = 200

JoinDone == Done /\ body.route = "reference-filter" /\ res.status = 200

(* the condition list of the answered request, <<>> when absent *)
Conditions ==
  IF body.route = "filter" THEN body.filters.a ELSE body.filterConditions.a

(* the record set the answered request filters, and what the engine kept *)
FilterInput ==
  IF body.route = "filter" THEN body.data.a ELSE body.referenceData.a

FilterOutput ==
  IF body.route = "filter" THEN filteredData ELSE filteredReferenceData

AllTrue(row, conds) == \A i \in 1..Len(conds) : evaluateFilter(row, conds[i])

AnyTrue(row, conds) == \E i \in 1..Len(conds) : evaluateFilter(row, conds[i])

Occurs(row, rows) == \E i \in 1..Len(rows) : rows[i] = row

(* C1: with a single condition c under AND, every kept row satisfies c and *)
(* every row of the input that is absent from the result does not, for the *)
(* filter route and for the reference filter of the join route.            *)
C1_SingleConditionExact ==
  ((FilterDone \/ (JoinDone /\ body.logicOperator # "OR"))
     /\ Len(Conditions) = 1)
    => /\ \A i \in 1..Len(FilterOutput) :
            evaluateFilter(FilterOutput[i], Conditions[1])
       /\ \A i \in 1..Len(FilterInput) :
            ~Occurs(FilterInput[i], FilterOutput)
              => ~evaluateFilter(FilterInput[i], Conditions[1])
       /\ (FilterDone /\ ~res.paged) => res.data = filteredData

(* a single-condition filter request that keeps one row and drops another *)
W1_KeptAndDropped ==
  /\ FilterDone /\ Len(Conditions) = 1
  /\ Len(body.data.a) = 2 /\ Len(filteredData) = 1
  /\ Conditions[1].condition = "notEquals"

(* C2 as stated: on both routes a row is kept iff at least one condition   *)
(* is true under OR, and iff every condition is true under AND or no       *)
(* operator.                                                               *)
X2_OperatorAppliedOnBothRoutes ==
  ((FilterDone \/ JoinDone) /\ Len(Conditions) > 0)
    => FilterOutput =
         (LET keep(row) == IF body.logicOperator = "OR"
                             THEN AnyTrue(row, Conditions)
                             ELSE AllTrue(row, Conditions)
          IN  SelectSeq(FilterInput, keep))

(* C2, amended: the reference filter of the join route applies the         *)
(* requested operator (OR: at least one condition true; AND or none given: *)
(* every condition true); the filter route has no operator and keeps a row *)
(* iff every condition is true, whatever logicOperator the body carries.   *)
C2_OperatorAppliedByReferenceFilterOnly ==
  /\ (JoinDone /\ Len(Conditions) > 0)
       => filteredReferenceData =
            (LET keep(row) == IF body.logicOperator = "OR"
                                THEN AnyTrue(row, Conditions)
                                ELSE AllTrue(row, Conditions)
             IN  SelectSeq(body.referenceData.a, keep))
  /\ (FilterDone /\ Len(Conditions) > 0)
       => filteredData =
            (LET keep(row) == AllTrue(row, Conditions)
             IN  SelectSeq(body.data.a, keep))

(* an OR request to the join route keeps a row that fails one of its two   *)
(* conditions                                                              *)
W2_OrKeepsPartialMatch ==
  /\ JoinDone /\ body.logicOperator = "OR" /\ Len(Conditions) = 2
  /\ \E i \in 1..Len(filteredReferenceData) :
       /\ AnyTrue(filteredReferenceData[i], Conditions)
       /\ ~AllTrue(filteredReferenceData[i], Conditions)

RECURSIVE IsSubsequence(_, _)
IsSubsequence(a, b) ==
  IF a = <<>> THEN TRUE
  ELSE IF b = <<>> THEN FALSE
  ELSE IF a[1] = b[1] /\ IsSubsequence(Tail(a), Tail(b)) THEN TRUE
  ELSE IsSubsequence(a, Tail(b))

(* C3: the filtered rows are a subsequence of the input rows: each is an   *)
(* input row, unaltered, none twice, in the input's relative order.        *)
C3_FilterIsSubsequence ==
  (FilterDone \/ JoinDone) => IsSubsequence(FilterOutput, FilterInput)

(* two different rows survive a non-empty condition list *)
W3_TwoRowsKept ==
  /\ FilterDone /\ Len(Conditions) > 0
  /\ Len(filteredData) = 2 /\ filteredData[1] # filteredData[2]

(* C4: with an empty or absent condition list the engine returns the input *)
(* unchanged and the filter route reports totalRows = originalRows,        *)
(* whatever the operator.                                                  *)
C4_NoConditionsIsIdentity ==
  /\ (FilterDone /\ Len(Conditions) = 0)
       => /\ filteredData = body.data.a
          /\ res.totalRows = res.originalRows
          /\ res.originalRows = Len(body.data.a)
          /\ ~res.paged => res.data = body.data.a
  /\ (JoinDone /\ Len(Conditions) = 0)
       => /\ filteredReferenceData = body.referenceData.a
          /\ res.filteredRefRows = Len(body.referenceData.a)

(* an OR request with an empty list over two rows *)
W4_EmptyListUnderOr ==
  /\ FilterDone /\ body.filters = Arr(<<>>) /\ body.logicOperator = "OR"
  /\ Len(body.data.a) = 2 /\ ~res.paged /\ Len(res.data) = 2

(* C5: filtering the result again with the same conditions and operator    *)
(* returns it unchanged.                                                   *)
C5_FilterIdempotent ==
  /\ FilterDone => applyFilters(filteredData, body.filters) = filteredData
  /\ JoinDone
       => FilteredReferenceData(
            [body EXCEPT !.referenceData = Arr(filteredReferenceData)])
            = filteredReferenceData

(* a request whose conditions dropped a row and kept one *)
W5_ProperNonEmptyResult ==
  /\ FilterDone /\ Len(Conditions) = 2
  /\ Len(body.data.a) = 2 /\ Len(filteredData) = 1

-----------------------------------------------------------------------------
(* Properties of the reference join *)

PrimaryData == body.primaryData.a

KeyColumns == body.keyColumns.a

RefHeaders == ObjectKeys(body.referenceData.a[1])

PrimaryHeaders == ObjectKeys(body.primaryData.a[1])

IsLeftJoin == body.joinType = "left"

(* the bucket of primary row i: the filtered reference rows with its       *)
(* composite key, in reference order                                       *)
Bucket(i) ==
  LET sameKey(refRow) ==
        refCompositeKey(refRow, KeyColumns)
          = primaryCompositeKey(PrimaryData[i], KeyColumns)
  IN  SelectSeq(filteredReferenceData, sameKey)

FanOut(i) == Len(Bucket(i))

(* the rows primary row i is to contribute *)
Emitted(i) ==
  IF FanOut(i) > 0 THEN FanOut(i) ELSE IF IsLeftJoin THEN 1 ELSE 0

(* the rows the primary rows before i are to contribute *)
RECURSIVE Offset(_)
Offset(i) == IF i <= 1 THEN 0 ELSE Offset(i - 1) + Emitted(i - 1)

EmittedTotal == Offset(Len(PrimaryData) + 1)

(* the size of the largest bucket of the index *)
MaxBucketSize ==
  LET size(i) ==
        Cardinality({j \in 1..Len(filteredReferenceData) :
           refCompositeKey(filteredReferenceData[j], KeyColumns)
             = refCompositeKey(filteredReferenceData[i], KeyColumns)})
      sizes == {size(i) : i \in 1..Len(filteredReferenceData)}
  IN  IF sizes = {} THEN 0 ELSE CHOOSE s \in sizes : \A u \in sizes : u <= s

AllRefColumnsNull(row) ==
  \A h \in 1..Len(RefHeaders) : Get(row, "ref_" \o RefHeaders[h]) = Null

RefColumnsFrom(row, refRow) ==
  \A h \in 1..Len(RefHeaders) :
    Get(row, "ref_" \o RefHeaders[h]) = Get(refRow, RefHeaders[h])

PrimaryColumnsFrom(row, primaryRow) ==
  \A c \in 1..Len(PrimaryHeaders) :
    Get(row, PrimaryHeaders[c]) = Get(primaryRow, PrimaryHeaders[c])

(* the primary columns whose name is not ref_<reference column> *)
UnprefixedPrimaryColumnsFrom(row, primaryRow) ==
  \A c \in 1..Len(PrimaryHeaders) :
    (\A h \in 1..Len(RefHeaders) : PrimaryHeaders[c] # "ref_" \o RefHeaders[h])
      => Get(row, PrimaryHeaders[c]) = Get(primaryRow, PrimaryHeaders[c])

(* C6 as stated: a left join has exactly as many rows as the primary set,  *)
(* and the row of an unmatched primary row has all ref_* columns null.     *)
X6_LeftJoinHasPrimaryRowCount ==
  (JoinDone /\ IsLeftJoin /\ ~res.paged)
    => /\ res.totalRows = Len(PrimaryData)
       /\ Len(res.data) = Len(PrimaryData)
       /\ \A i \in 1..Len(PrimaryData) :
            FanOut(i) = 0 => AllRefColumnsNull(res.data[i])

(* C6, amended: a left join has one row per unmatched primary row plus one *)
(* row per (primary row, matching reference row) pair: at least the        *)
(* primary row count, and exactly that when no primary row matches more    *)
(* than one reference row; the row of an unmatched primary row has all     *)
(* ref_* columns null.                                                     *)
C6_LeftJoinRowCount ==
  (JoinDone /\ IsLeftJoin /\ ~res.paged)
    => /\ res.totalRows = EmittedTotal
       /\ Len(res.data) = res.totalRows
       /\ res.totalRows >= Len(PrimaryData)
       /\ (\A i \in 1..Len(PrimaryData) : FanOut(i) <= 1)
            => res.totalRows = Len(PrimaryData)
       /\ \A i \in 1..Len(PrimaryData) :
            FanOut(i) = 0 => AllRefColumnsNull(res.data[Offset(i) + 1])

(* a left join where one primary row fans out to two reference rows and    *)
(* another matches none                                                    *)
W6_LeftJoinFanOutAndUnmatched ==
  /\ JoinDone /\ IsLeftJoin /\ ~res.paged
  /\ Len(PrimaryData) = 2
  /\ FanOut(1) = 0 /\ FanOut(2) = 2
  /\ res.totalRows = 3

(* C7 as stated: in every emitted row each primary-header column holds the *)
(* value of the primary row it came from, whatever the column names.       *)
X7_PrimaryColumnsNeverOverwritten ==
  (JoinDone /\ ~res.paged /\ Len(res.data) = EmittedTotal)
    => \A i \in 1..Len(PrimaryData) :
         \A m \in 1..Emitted(i) :
           PrimaryColumnsFrom(res.data[Offset(i) + m], PrimaryData[i])

(* C8: an inner join (also when no joinType is given) emits, in primary    *)
(* order, one merged row per (primary row, reference row of its bucket)    *)
(* pair and nothing for a primary row without a bucket, so the row count   *)
(* is at most the primary row count times the largest bucket size.         *)
C8_InnerJoinPairs ==
  (JoinDone /\ ~IsLeftJoin /\ ~res.paged)
    => /\ res.totalRows = EmittedTotal
       /\ Len(res.data) = res.totalRows
       /\ \A i \in 1..Len(PrimaryData) :
            \A m \in 1..FanOut(i) :
              /\ RefColumnsFrom(res.data[Offset(i) + m], Bucket(i)[m])
              /\ UnprefixedPrimaryColumnsFrom(res.data[Offset(i) + m],
                                              PrimaryData[i])
       /\ res.totalRows <= Len(PrimaryData) * MaxBucketSize

(* a default-type join where one primary row pairs with two reference rows *)
(* and another primary row is dropped                                      *)
W8_InnerJoinFanOutAndDrop ==
  /\ JoinDone /\ body.joinType = "undefined" /\ ~res.paged
  /\ Len(PrimaryData) = 2
  /\ FanOut(1) = 2 /\ FanOut(2) = 0
  /\ res.totalRows = 2
  /\ res.data[1] # res.data[2]

(* C9 as stated: under a left join an unmatched primary row yields exactly *)
(* one row, the primary columns verbatim with every ref_* column null; a   *)
(* matched primary row yields its inner-join rows; so every primary row    *)
(* appears at least once.                                                  *)
X9_LeftJoinUnmatchedRowVerbatim ==
  (JoinDone /\ IsLeftJoin /\ ~res.paged)
    => /\ Len(res.data) = EmittedTotal
       /\ \A i \in 1..Len(PrimaryData) :
            /\ Emitted(i) >= 1
            /\ FanOut(i) = 0
                 => /\ Emitted(i) = 1
                    /\ PrimaryColumnsFrom(res.data[Offset(i) + 1],
                                          PrimaryData[i])
                    /\ AllRefColumnsNull(res.data[Offset(i) + 1])
            /\ \A m \in 1..FanOut(i) :
                 RefColumnsFrom(res.data[Offset(i) + m], Bucket(i)[m])

(* white space, for the statement of C10 *)
IsSpace(c) == c \in {" ", "\t", "\n", "\r"}

(* s without its leading and trailing white space *)
Stripped(s) ==
  LET inked == {i \in 1..Len(s) : ~IsSpace(s[i])}
      first == CHOOSE i \in inked : \A j \in inked : i <= j
      last == CHOOSE i \in inked : \A j \in inked : j <= i
  IN  IF inked = {} THEN <<>> ELSE SubSeq(s, first, last)

SameLetter(c, d) ==
  c = d \/ \E i \in 1..26 : {c, d} = {UpperCase[i], LowerCase[i]}

(* two key values that differ at most in letter case and in surrounding    *)
(* white space                                                             *)
SameKeyValue(v, w) ==
  /\ v.t \in {"str", "num"} /\ w.t \in {"str", "num"}
  /\ LET a == Stripped(String(v))
         b == Stripped(String(w))
     IN  Len(a) = Len(b) /\ \A i \in 1..Len(a) : SameLetter(a[i], b[i])

KeysAgree(primaryRow, refRow) ==
  \A k \in 1..Len(KeyColumns) :
    SameKeyValue(Get(primaryRow, KeyColumns[k].primaryColumn),
                 Get(refRow, KeyColumns[k].refColumn))

(* C10: a primary row and a filtered reference row whose key values, pair  *)
(* by pair, differ at most in letter case and surrounding white space are  *)
(* joined: the primary row emits a row carrying that reference row.        *)
C10_KeysMatchIgnoringCaseAndSpace ==
  (JoinDone /\ ~res.paged /\ Len(res.data) = EmittedTotal)
    => \A i \in 1..Len(PrimaryData) :
         \A j \in 1..Len(filteredReferenceData) :
           KeysAgree(PrimaryData[i], filteredReferenceData[j])
             => \E m \in 1..Emitted(i) :
                  /\ RefColumnsFrom(res.data[Offset(i) + m],
                                    filteredReferenceData[j])
                  /\ UnprefixedPrimaryColumnsFrom(res.data[Offset(i) + m],
                                                  PrimaryData[i])

(* a two-pair key with differently named columns joins values that differ  *)
(* in case and in surrounding white space                                  *)
W10_JoinedAcrossCaseAndSpace ==
  /\ JoinDone /\ ~res.paged /\ Len(KeyColumns) = 2
  /\ KeyColumns[2].refColumn # KeyColumns[2].primaryColumn
  /\ Len(res.data) >= 1
  /\ \E j \in 1..Len(filteredReferenceData) :
       /\ KeysAgree(PrimaryData[1], filteredReferenceData[j])
       /\ Get(PrimaryData[1], "id") # Get(filteredReferenceData[j], "id")
       /\ Get(PrimaryData[1], KeyColumns[2].primaryColumn)
            # Get(filteredReferenceData[j], "k")
       /\ RefColumnsFrom(res.data[1], filteredReferenceData[j])

(* the reference filter's verdict on a row: the conditions under the       *)
(* request's operator, every row when there are no conditions             *)
PassesConditions(row) ==
  IF Len(Conditions) = 0 THEN TRUE
  ELSE IF body.logicOperator = "OR" THEN AnyTrue(row, Conditions)
  ELSE AllTrue(row, Conditions)

(* C11: the join indexes exactly the reference rows that pass the          *)
(* conditions under the operator and walks every primary row, filtered or  *)
(* not: each merged row of a matched primary row carries a reference row   *)
(* that passed, the number of emitted rows depends on the primary rows     *)
(* only through their keys, filteredRefRows is the number of reference     *)
(* rows that passed and originalPrimaryRows is the primary row count.      *)
C11_JoinUsesFilteredReferenceAndAllPrimary ==
  (JoinDone /\ ~res.paged)
    => LET passed == SelectSeq(body.referenceData.a, PassesConditions)
       IN  /\ filteredReferenceData = passed
           /\ res.filteredRefRows = Len(passed)
           /\ res.originalPrimaryRows = Len(PrimaryData)
           /\ Len(res.data) = EmittedTotal
           /\ \A i \in 1..Len(PrimaryData) :
                LET bucket == Bucket(i)
                    offset == Offset(i)
                IN  \A m \in 1..Len(bucket) :
                      /\ Occurs(bucket[m], passed)
                      /\ RefColumnsFrom(res.data[offset + m], bucket[m])
                      /\ UnprefixedPrimaryColumnsFrom(res.data[offset + m],
                                                      PrimaryData[i])

(* a left join whose conditions drop a reference row, where a primary row  *)
(* that satisfies none of the conditions is merged with a reference row    *)
(* that passed and another such primary row is kept unmatched              *)
W11_FailingPrimaryRowsStillJoined ==
  /\ JoinDone /\ IsLeftJoin /\ ~res.paged /\ Len(Conditions) > 0
  /\ res.filteredRefRows < Len(body.referenceData.a)
  /\ res.originalPrimaryRows = 2
  /\ \E i \in 1..Len(PrimaryData) :
       FanOut(i) > 0 /\ ~AnyTrue(PrimaryData[i], Conditions)
  /\ \E i \in 1..Len(PrimaryData) :
       FanOut(i) = 0 /\ ~AnyTrue(PrimaryData[i], Conditions)

(* the composite keys of the index that some primary row carries *)
MatchedKeys ==
  {refCompositeKey(filteredReferenceData[j], KeyColumns) :
     j \in {r \in 1..Len(filteredReferenceData) :
              \E i \in 1..Len(PrimaryData) :
                primaryCompositeKey(PrimaryData[i], KeyColumns)
                  = refCompositeKey(filteredReferenceData[r], KeyColumns)}}

(* C12: matchedRows is the number of distinct composite keys that matched  *)
(* at least one primary row; it is at most the number of emitted rows, at  *)
(* most the primary row count and at most the number of filtered reference *)
(* rows.                                                                   *)
C12_MatchedRowsCountsDistinctKeys ==
  JoinDone
    => /\ res.matchedRows = Cardinality(MatchedKeys)
       /\ res.matchedRows <= res.totalRows
       /\ res.matchedRows <= res.originalPrimaryRows
       /\ res.matchedRows <= res.filteredRefRows
       /\ res.totalRows = EmittedTotal
       /\ res.originalPrimaryRows = Len(PrimaryData)
       /\ res.filteredRefRows = Len(filteredReferenceData)

(* two primary rows with one key, matched by two reference rows: one       *)
(* matched key, two primary rows, four emitted rows                        *)
W12_RepeatedKeyFansOut ==
  /\ JoinDone /\ res.matchedRows = 1
  /\ res.originalPrimaryRows = 2 /\ res.filteredRefRows = 2
  /\ res.totalRows = 4
  /\ FanOut(1) = 2 /\ FanOut(2) = 2

(* C15: the result header is the primary header followed by ref_<column>   *)
(* for every reference header column in reference order, nothing dropped   *)
(* or merged: its length is the primary column count plus the reference    *)
(* column count, for inner and left joins and for results without rows.    *)
C15_HeaderIsPrimaryThenPrefixedReference ==
  JoinDone
    => /\ Len(res.headers) = Len(PrimaryHeaders) + Len(RefHeaders)
       /\ \A c \in 1..Len(PrimaryHeaders) : res.headers[c] = PrimaryHeaders[c]
       /\ \A h \in 1..Len(RefHeaders) :
            res.headers[Len(PrimaryHeaders) + h] = "ref_" \o RefHeaders[h]

(* an inner join without rows whose primary header already has ref_k: the  *)
(* header lists ref_k twice                                                *)
W15_EmptyResultWithRepeatedHeader ==
  /\ JoinDone /\ ~IsLeftJoin /\ res.totalRows = 0 /\ res.data = <<>>
  /\ res.headers = <<"id", "ref_k", "ref_id", "ref_k">>

-----------------------------------------------------------------------------
(* Properties of pagination *)

(* the whole result the answered request pages through: the filtered rows, *)
(* or the joined rows of the same request sent without page and pageSize   *)
FullResult ==
  IF body.route = "filter"
    THEN filteredData
    ELSE ReferenceFilterResponse(
           [body EXCEPT !.page = Undefined, !.pageSize = Undefined]).data

(* the rows of a at the 0-based indices lo .. hi-1 *)
RowsBetween(a, lo, hi) ==
  [k \in 1..(IF hi > lo THEN hi - lo ELSE 0) |-> a[lo + k]]

Min(x, y) == IF x <= y THEN x ELSE y

(* the least t with t * s >= n *)
Ceiling(n, s) == CHOOSE t \in 0..n : t * s >= n /\ (t = 0 \/ (t - 1) * s < n)

(* C16: for page p >= 1 and pageSize s >= 1 (integers) over a result of n  *)
(* rows, the page is the rows at indices [(p-1)*s, min(p*s, n)), totalRows *)
(* is n, totalPages is ceil(n/s) and hasMore holds iff p < totalPages; on  *)
(* the filter route and on the join route.                                 *)
C16_PageIsSliceOfResult ==
  ((FilterDone \/ JoinDone) /\ res.paged)
    => LET p == body.page.n
           s == body.pageSize.n
           n == Len(FullResult)
       IN  /\ res.data = RowsBetween(FullResult, (p - 1) * s, Min(p * s, n))
           /\ res.totalRows = n
           /\ res.currentPage = p
           /\ res.totalPages = Ceiling(n, s)
           /\ res.hasMore <=> p < res.totalPages

(* five rows in pages of two: the third page is the last, holds one row    *)
(* and has no successor                                                    *)
W16_LastPageIsPartial ==
  /\ FilterDone /\ res.paged /\ Len(body.data.a) = 5
  /\ res.totalRows = 5 /\ body.pageSize.n = 2 /\ body.page.n = 3
  /\ res.totalPages = 3 /\ Len(res.data) = 1 /\ ~res.hasMore
  /\ res.data[1] = PageRow(5)

(* the response the answered request would get for page q *)
PageResponse(q) ==
  IF body.route = "filter"
    THEN FilterResponse([body EXCEPT !.page = Num(q)])
    ELSE ReferenceFilterResponse([body EXCEPT !.page = Num(q)])

(* the rows of the pages 1..q, in page order *)
RECURSIVE ConcatPages(_)
ConcatPages(q) ==
  IF q <= 0 THEN <<>> ELSE ConcatPages(q - 1) \o PageResponse(q).data

(* C29: for pageSize s >= 1 the pages 1..totalPages partition the result:  *)
(* concatenated in page order they are the full result, every page but the *)
(* last holds exactly s rows, and a page above totalPages is empty with    *)
(* hasMore false; on the filter route and on the join route.               *)
C29_PagesPartitionTheResult ==
  ((FilterDone \/ JoinDone) /\ res.paged)
    => LET t == res.totalPages
           s == body.pageSize.n
       IN  /\ res = PageResponse(body.page.n)
           /\ ConcatPages(t) = FullResult
           /\ \A q \in 1..(t - 1) : Len(PageResponse(q).data) = s
           /\ t >= 1 => Len(PageResponse(t).data) \in 1..s
           /\ \A q \in (t + 1)..(t + 2) :
                /\ PageResponse(q).data = <<>>
                /\ ~PageResponse(q).hasMore
                /\ PageResponse(q).totalPages = t

(* the join route asked for page 4 of a result of three pages: the page is *)
(* empty and has no successor, and the three pages before it hold the      *)
(* whole result                                                            *)
W29_PageBeyondTheLastIsEmpty ==
  /\ JoinDone /\ res.paged /\ body.page.n = 4 /\ body.pageSize.n = 2
  /\ res.totalPages = 3 /\ res.totalRows = 5
  /\ res.data = <<>> /\ ~res.hasMore
  /\ Len(ConcatPages(3)) = 5

-----------------------------------------------------------------------------
(* Properties of the predicate evaluator *)

NumericFamily ==
  {"equals", "notEquals", "greaterThan", "lessThan", "greaterThanOrEqual",
   "lessThanOrEqual", "between"}

KnownConditions ==
  NumericFamily
    \cup {"contains", "doesNotContain", "startsWith", "endsWith",
          "exactMatch", "before", "after", "on", "betweenDates", "isEmpty",
          "isNotEmpty"}

(* the value parses to a finite number *)
ParsesFinite(v) == parseFloat(v).k = "fin"

(* the cell and the comparison values the condition reads all parse to a   *)
(* finite number                                                           *)
OperandsParse(row, c) ==
  /\ ParsesFinite(Get(row, c.column))
  /\ ParsesFinite(c.value)
  /\ c.condition = "between" => ParsesFinite(c.value2)

(* input row i is in the result *)
Kept(i) == Occurs(FilterInput[i], FilterOutput)

(* the request combines its conditions with OR *)
UnderOr == body.route = "reference-filter" /\ body.logicOperator = "OR"

(* C19 as stated: when the cell or a comparison value does not parse to a  *)
(* finite number, a numeric condition other than notEquals rejects the row *)
(* and notEquals keeps it; notEquals is the negation of equals, so the two *)
(* together keep no row under AND and every row under OR; and every        *)
(* request is answered without an error.                                   *)
X19_NonFiniteOperandFailsClosed ==
  /\ Done => res.status = 200
  /\ ((FilterDone \/ JoinDone) /\ Len(Conditions) = 1
        /\ Conditions[1].condition \in NumericFamily)
       => \A i \in 1..Len(FilterInput) :
            ~OperandsParse(FilterInput[i], Conditions[1])
              => (Kept(i) <=> Conditions[1].condition = "notEquals")
  /\ ((FilterDone \/ JoinDone) /\ Len(Conditions) = 2
        /\ Conditions[1].condition = "equals"
        /\ Conditions[2].condition = "notEquals"
        /\ Conditions[1].value = Conditions[2].value)
       => FilterOutput = IF UnderOr THEN FilterInput ELSE <<>>

(* C20: a condition whose name is not a known kind is true on every row:   *)
(* under AND the result is what the other conditions alone keep (all rows  *)
(* when there are none), under OR every row passes.                        *)
C20_UnknownConditionIsTrue ==
  ((FilterDone \/ JoinDone)
     /\ \E k \in 1..Len(Conditions) :
          Conditions[k].condition \notin KnownConditions)
    => FilterOutput =
         (LET keep(row) ==
                \/ UnderOr
                \/ \A k \in 1..Len(Conditions) :
                     Conditions[k].condition \in KnownConditions
                       => evaluateFilter(row, Conditions[k])
          IN  SelectSeq(FilterInput, keep))

(* the filter route keeps both rows under an unknown condition alone, and  *)
(* one of them would fail the known condition of the same name in lower    *)
(* case                                                                    *)
W20_UnknownConditionKeepsAllRows ==
  /\ FilterDone /\ Len(Conditions) = 1
  /\ Conditions[1].condition = "Equals"
  /\ Len(body.data.a) = 2 /\ filteredData = body.data.a
  /\ ~evaluateFilter(body.data.a[1],
                     [Conditions[1] EXCEPT !.condition = "equals"])

-----------------------------------------------------------------------------
(* Properties of type inference *)

UploadDone == Done /\ body.route = "upload" /\ res.status = 200

IsEmptyCell(v) == v.t \in {"null", "undefined"} \/ v = Str(<<>>)

(* the non-empty cells of a column of the uploaded sheet *)
ColumnCells(header) ==
  {Get(body.data.a[i], header) : i \in 1..Len(body.data.a)}
    \ {Null, Undefined, Str(<<>>)}

(* every non-empty cell of the column, and at least one, classifies so *)
ColumnIsAll(header, type) ==
  /\ ColumnCells(header) # {}
  /\ \A v \in ColumnCells(header) : detectDataType(v) = type

(* C17 as stated: whatever the number of rows, a column whose non-empty    *)
(* values all classify as numeric is typed number, and one whose non-empty *)
(* values are all ISO dates is typed date.                                 *)
X17_UniformColumnGetsItsType ==
  UploadDone
    => \A h \in 1..Len(res.headers) :
         /\ ColumnIsAll(res.headers[h], "number")
              => Get(res.columnTypes, res.headers[h]) = "number"
         /\ ColumnIsAll(res.headers[h], "date")
              => Get(res.columnTypes, res.headers[h]) = "date"

(* C18: the type of a column is decided by the counts of the classified    *)
(* non-empty sampled values: number iff count(number) >= count(date) and   *)
(* count(number) >= count(text); otherwise date iff count(date) >=         *)
(* count(text); otherwise text: a type of the greatest count, ties going   *)
(* to number, then date, then text.  A column with no non-empty sampled    *)
(* value is text.                                                          *)
C18_PluralityTypeWithTieOrder ==
  UploadDone
    => \A h \in 1..Len(res.headers) :
         LET sample == Get(sampleValues, res.headers[h])
             type == Get(res.columnTypes, res.headers[h])
             number == TypeCount(sample, "number")
             date == TypeCount(sample, "date")
             text == TypeCount(sample, "text")
         IN  /\ \A i \in 1..Len(sample) : ~IsEmptyCell(sample[i])
             /\ number + date + text = Len(sample)
             /\ Len(sample) = 0 => type = "text"
             /\ Len(sample) > 0
                  => /\ type = "number" <=> (number >= date /\ number >= text)
                     /\ type = "date"
                          <=> (~(number >= date /\ number >= text)
                                 /\ date >= text)
                     /\ type = "text"
                          <=> (~(number >= date /\ number >= text)
                                 /\ ~(date >= text))
                     /\ TypeCount(sample, type) >= number
                     /\ TypeCount(sample, type) >= date
                     /\ TypeCount(sample, type) >= text

(* one sampled date and one sampled word, no number: the tie goes to date; *)
(* the blank column beside it is text                                      *)
W18_DateTiesWithText ==
  /\ UploadDone
  /\ LET sample == Get(sampleValues, "v")
     IN  /\ Len(sample) = 2
         /\ TypeCount(sample, "date") = 1 /\ TypeCount(sample, "text") = 1
  /\ Get(res.columnTypes, "v") = "date"
  /\ Get(sampleValues, "w") = <<>>
  /\ Get(res.columnTypes, "w") = "text"

-----------------------------------------------------------------------------
(* Properties of request validation *)

JoinRequestDone == Done /\ body.route = "reference-filter"

FilterRequestDone == Done /\ body.route = "filter"

(* an array with at least one element *)
IsNonEmptyArray(field) == field.t = "array" /\ Len(field.a) > 0

(* the response is a 400 that carries an error message and nothing else *)
IsErrorOnly == res.status = 400 /\ DOMAIN res = {"status", "error"}

(* both data sets and the key column list are non-empty arrays *)
KeyValidationReached ==
  /\ body.route = "reference-filter"
  /\ IsNonEmptyArray(body.referenceData)
  /\ IsNonEmptyArray(body.primaryData)
  /\ IsNonEmptyArray(body.keyColumns)

RefColumnMissing(i) ==
  \A c \in 1..Len(RefHeaders) : RefHeaders[c] # KeyColumns[i].refColumn

PrimaryColumnMissing(i) ==
  \A c \in 1..Len(PrimaryHeaders) :
    PrimaryHeaders[c] # KeyColumns[i].primaryColumn

(* C13: when some key pair names a reference column absent from the        *)
(* reference header or a primary column absent from the primary header,    *)
(* the join route answers 400 with a message that names one such column    *)
(* and its side, carries no data, and the reference set is never filtered  *)
(* or joined.                                                              *)
C13_MissingKeyColumnRejected ==
  (JoinRequestDone /\ KeyValidationReached
     /\ \E i \in 1..Len(KeyColumns) :
          RefColumnMissing(i) \/ PrimaryColumnMissing(i))
    => /\ IsErrorOnly
       /\ filteredReferenceData = <<>>
       /\ \E i \in 1..Len(KeyColumns) :
            \/ /\ RefColumnMissing(i)
               /\ res.error = "Reference column \""
                                \o KeyColumns[i].refColumn \o "\" not found"
            \/ /\ PrimaryColumnMissing(i)
               /\ res.error = "Primary column \""
                                \o KeyColumns[i].primaryColumn \o "\" not found"

(* the second of two key pairs names a primary column that does not exist; *)
(* the first pair and the second pair's reference column are fine          *)
W13_SecondPairPrimaryColumnMissing ==
  /\ JoinRequestDone /\ KeyValidationReached /\ Len(KeyColumns) = 2
  /\ ~RefColumnMissing(1) /\ ~PrimaryColumnMissing(1)
  /\ ~RefColumnMissing(2) /\ PrimaryColumnMissing(2)
  /\ res = ErrorResponse(400, "Primary column \"zz\" not found")

(* C14: the join route answers 400 without data, and neither filters nor   *)
(* joins, when the reference set, the primary set or the key column list   *)
(* is not an array or is empty; the filter route answers 400 without data  *)
(* when its data payload is not an array.                                  *)
C14_EmptyOrNonArrayInputRejected ==
  /\ (JoinRequestDone /\ ~KeyValidationReached)
       => /\ IsErrorOnly
          /\ filteredReferenceData = <<>>
          /\ res.error =
               IF ~IsNonEmptyArray(body.referenceData)
                 THEN "Reference data must be provided as a non-empty array"
               ELSE IF ~IsNonEmptyArray(body.primaryData)
                 THEN "Primary data must be provided as a non-empty array"
               ELSE "At least one key column must be specified"
  /\ (FilterRequestDone /\ body.data.t # "array")
       => /\ IsErrorOnly
          /\ filteredData = <<>>
          /\ res.error = "Invalid data provided"

(* a join request with two reference rows and a key pair but an empty      *)
(* primary set                                                             *)
W14_EmptyPrimarySetRejected ==
  /\ JoinRequestDone
  /\ IsNonEmptyArray(body.referenceData) /\ Len(body.referenceData.a) = 2
  /\ body.primaryData = Arr(<<>>)
  /\ IsNonEmptyArray(body.keyColumns)
  /\ res = ErrorResponse(400,
             "Primary data must be provided as a non-empty array")

-----------------------------------------------------------------------------
(* Properties of the emptiness checks and the date conditions *)

(* the cell of column d in input row i, undefined when the row lacks it *)
CellOf(i) == Get(FilterInput[i], "d")

(* the cell is null, undefined, or text with nothing but white space *)
IsBlankCell(v) ==
  \/ v.t \in {"null", "undefined"}
  \/ \A k \in 1..Len(String(v)) : IsSpace(String(v)[k])

(* what the claim has condition c say of cell v *)
EmptinessVerdict(c, v) ==
  IF c.condition = "isEmpty" THEN IsBlankCell(v) ELSE ~IsBlankCell(v)

(* C23: isEmpty keeps exactly the rows whose cell is null, undefined (the  *)
(* column missing), empty or white space only, and isNotEmpty keeps        *)
(* exactly the others: with emptiness checks alone, a row is kept when     *)
(* every check (any check, under OR) agrees with that verdict.             *)
C23_EmptinessChecksAreExactComplements ==
  ((FilterDone \/ JoinDone) /\ Len(Conditions) >= 1
     /\ \A k \in 1..Len(Conditions) :
          Conditions[k].condition \in {"isEmpty", "isNotEmpty"})
    => \A i \in 1..Len(FilterInput) :
         Kept(i) <=>
           IF UnderOr
             THEN \E k \in 1..Len(Conditions) :
                    EmptinessVerdict(Conditions[k], CellOf(i))
             ELSE \A k \in 1..Len(Conditions) :
                    EmptinessVerdict(Conditions[k], CellOf(i))

(* isEmpty alone keeps a row without the column and drops a dated row *)
W23_MissingColumnIsEmpty ==
  /\ FilterDone /\ Len(Conditions) = 1
  /\ Conditions[1].condition = "isEmpty"
  /\ Len(body.data.a) = 2
  /\ CellOf(1).t = "undefined" /\ CellOf(2).t = "str" /\ Len(CellOf(2).s) = 10
  /\ filteredData = <<body.data.a[1]>>

DateFamily == {"before", "after", "on", "betweenDates"}

(* the value is a number or text that parses to a date; null, undefined    *)
(* and the empty string are not dates                                      *)
IsParseableDate(v) == v.t \in {"num", "str"} /\ ~DateIsNaN(NewDate(v))

(* the cell and the comparison values the condition reads are all dates *)
DateOperandsParse(row, c) ==
  /\ IsParseableDate(Get(row, c.column))
  /\ IsParseableDate(c.value)
  /\ c.condition = "betweenDates" => IsParseableDate(c.value2)

(* C24 as stated: a date condition rejects the row whenever the cell or a  *)
(* comparison value it reads is not a parseable date; in particular a cell *)
(* that is null, undefined or the empty string passes no date condition,   *)
(* whatever the comparison values.                                         *)
X24_UnparseableDateOperandIsFalse ==
  ((FilterDone \/ JoinDone) /\ Len(Conditions) = 1
     /\ Conditions[1].condition \in DateFamily)
    => \A i \in 1..Len(FilterInput) :
         ~DateOperandsParse(FilterInput[i], Conditions[1]) => ~Kept(i)

-----------------------------------------------------------------------------
(* Properties of the composite key *)

(* a key value normalised: null and undefined as the empty string, else    *)
(* the text without surrounding white space                                *)
NormalizedKey(v) ==
  IF v.t \in {"null", "undefined"} THEN <<>> ELSE Stripped(String(v))

(* equal after lower-casing *)
SameNormalizedKey(v, w) ==
  LET a == NormalizedKey(v)
      b == NormalizedKey(w)
  IN  Len(a) = Len(b) /\ \A i \in 1..Len(a) : SameLetter(a[i], b[i])

NormalizedKeysEqual(primaryRow, refRow) ==
  \A k \in 1..Len(KeyColumns) :
    SameNormalizedKey(Get(primaryRow, KeyColumns[k].primaryColumn),
                      Get(refRow, KeyColumns[k].refColumn))

(* C25 as stated: a result row that merges a primary row with a reference  *)
(* row merges rows whose normalised key values are equal in every key      *)
(* pair, whatever characters the key values contain.                       *)
X25_MergedRowsAgreeOnEveryKeyPair ==
  (JoinDone /\ ~res.paged)
    => \A n \in 1..Len(res.data) :
         \A i \in 1..Len(PrimaryData) :
           \A j \in 1..Len(filteredReferenceData) :
             (/\ PrimaryColumnsFrom(res.data[n], PrimaryData[i])
              /\ RefColumnsFrom(res.data[n], filteredReferenceData[j]))
               => NormalizedKeysEqual(PrimaryData[i], filteredReferenceData[j])

-----------------------------------------------------------------------------
(* Properties of a reference filter that keeps no row *)

(* the conditions reject every reference row of the request *)
ConditionsEliminateAll ==
  /\ Len(Conditions) >= 1
  /\ \A j \in 1..Len(FilterInput) : ~PassesConditions(FilterInput[j])

(* C30: when the conditions eliminate every row of a non-empty reference   *)
(* set the join is answered with 200, not an error: filteredRefRows and    *)
(* matchedRows are 0, an inner join has no row, and a left join has one    *)
(* row per primary row, in order, with every ref_ column null.             *)
C30_EmptyFilteredReferenceStillJoins ==
  (Done /\ body.route = "reference-filter" /\ ConditionsEliminateAll)
    => /\ res.status = 200
       /\ res.filteredRefRows = 0
       /\ res.matchedRows = 0
       /\ res.originalPrimaryRows = Len(PrimaryData)
       /\ ~IsLeftJoin => res.data = <<>> /\ res.totalRows = 0
       /\ IsLeftJoin =>
            /\ Len(res.data) = Len(PrimaryData)
            /\ res.totalRows = Len(PrimaryData)
            /\ \A i \in 1..Len(PrimaryData) :
                 /\ PrimaryColumnsFrom(res.data[i], PrimaryData[i])
                 /\ AllRefColumnsNull(res.data[i])

(* a left join whose two dated reference rows both fail the condition:     *)
(* both primary rows come back with null reference columns                 *)
W30_LeftJoinOverEmptyIndex ==
  /\ Done /\ body.route = "reference-filter" /\ IsLeftJoin
  /\ ConditionsEliminateAll /\ Conditions[1].condition = "isEmpty"
  /\ Len(body.referenceData.a) = 2
  /\ res.status = 200 /\ res.filteredRefRows = 0 /\ res.matchedRows = 0
  /\ Len(res.data) = 2
  /\ Get(res.data[2], "id") = Num(2) /\ Get(res.data[2], "ref_d") = Null

(* an inner join over the same kind of request returns no row *)
W30_InnerJoinOverEmptyIndex ==
  /\ Done /\ body.route = "reference-filter" /\ body.joinType = "inner"
  /\ ConditionsEliminateAll /\ res.status = 200 /\ res.data = <<>>

-----------------------------------------------------------------------------
(* Properties of the single-file App *)

(* the rows the table is given, <<>> when there are none *)
ShownRows == IF app.filteredData = Null THEN <<>> ELSE app.filteredData.a

(* C21 as stated: the filter request Clear All issues carries an empty     *)
(* filter list, and once its response has set the table's rows the table   *)
(* shows the original data of the loaded file.                             *)
X21_ClearAllShowsOriginalData ==
  /\ \A m \in network : m.by = "clearAll" => m.filters = <<>>
  /\ (app.shownBy = "clearAll" /\ app.excelData # Null)
       => ShownRows = app.excelData.data

(* C28 as stated: while a file is loaded, the rows shown as filtered data  *)
(* are rows of that file; a filter response computed from an earlier file  *)
(* never replaces them.                                                    *)
X28_ShownRowsComeFromLoadedFile ==
  app.excelData # Null
    => \A i \in 1..Len(ShownRows) : Occurs(ShownRows[i], app.excelData.data)

-----------------------------------------------------------------------------
(* Properties of DataTable *)

(* a and b hold the same rows, each as often *)
IsPermutation(a, b) ==
  /\ Len(a) = Len(b)
  /\ \A i \in 1..Len(a) :
       Cardinality({j \in 1..Len(a) : a[j] = a[i]})
         = Cardinality({j \in 1..Len(b) : b[j] = a[i]})

(* C22: the sorted rows are a permutation of the table's input rows, with  *)
(* every row's columns as they were; with no sort column they are the      *)
(* input in its order; and the input stays what the filter returned, the   *)
(* rows of the file in file order, whatever was sorted.                    *)
C22_SortIsPermutationOfUnchangedInput ==
  TableMounted(app)
    => /\ IsPermutation(TableSortedData, TableData)
       /\ table.sortColumn = "" => TableSortedData = TableData
       /\ IsSubsequence(TableData, app.excelData.data)
       /\ app.excelData.data = FileRows(1)

(* the three rows 12, "b", 3 sorted by amt, descending, come out as "b",   *)
(* 12, 3, and the input is still in file order                             *)
W22_SortedDescendingDiffersFromInput ==
  /\ TableMounted(app) /\ table.sortColumn = "amt"
  /\ table.sortDirection = "desc"
  /\ Len(TableData) = 3 /\ TableData = FileRows(1)
  /\ TableSortedData # TableData
  /\ Get(TableSortedData[3], "amt") = Num(3)

(* C26 as stated: whatever was clicked and whatever filter result arrived, *)
(* the current page is within 1..max(1, totalPages), and a table with rows *)
(* shows at least one of them.                                             *)
X26_CurrentPageWithinTotalPages ==
  TableMounted(app)
    => /\ table.currentPage >= 1
       /\ table.currentPage <= (IF totalPages > 1 THEN totalPages ELSE 1)
       /\ Len(TableSortedData) > 0 => Len(paginatedData) > 0

(* C27 as stated: the exporting flag of a kind is true exactly while a     *)
(* request of that kind is in flight; with no export in flight both flags  *)
(* are false and both buttons enabled.                                     *)
X27_ExportingFlagsTrackRequestsInFlight ==
  TableMounted(app)
    => /\ table.exporting.excel <=> \E m \in network : m.kind = "export-excel"
       /\ table.exporting.pdf <=> \E m \in network : m.kind = "export-pdf"

=============================================================================
